---- MODULE Spec2Model ----
(***************************************************************************)
(* A model of the graph compute engine of graphinius: BaseNode's edge      *)
(* buckets and degree counters, the graph container, the ComputeGraph      *)
(* projections, Dijkstra on top of PFS, the TypedGraph overlay, PageRank   *)
(* by random walk, the triangle and triad counts, and the JSON reader.     *)
(***************************************************************************)
EXTENDS Integers, Sequences, FiniteSets, TLC

VARIABLES
  edgeOf,   \* SpecNode: the edge objects the caller holds, one per edge id
  node,     \* SpecNode: the BaseNode under test (buckets and counters)
  lastOp,   \* SpecNode: the last BaseNode method called, with its argument
  threw,    \* SpecNode: whether that call threw
  graph,    \* SpecGraph: the graph container (node order, nodes' buckets, edges)
  pfs,      \* SpecPFS: the graph, the source and the state of a running PFS
  typed,    \* SpecTyped: the TypedGraph (base container and typed overlay)
  pr,       \* SpecPR: a graph, and the PageRankRandomWalk instances over it
  io        \* SpecJSON, SpecURL: the input readers, their input and their output

nodeVars == <<edgeOf, node, lastOp, threw>>

vars == <<edgeOf, node, lastOp, threw, graph, pfs, typed, pr, io>>

-----------------------------------------------------------------------------
(* Bounds *)

\* edge ids are 1..MaxEdgeIds; id i stands for a key that is no array index ("e<i>")
MaxEdgeIds == 2

EdgeIds == 1..MaxEdgeIds

\* SpecGraph: at most MaxEdges edges are added to the graph
MaxEdges == 2

\* SpecGraph: a weighted edge has weight 0 or MaxWeight
MaxWeight == 2

\* SpecPFS: at most MaxPFSEdges of the candidate edges are added to the graph
MaxPFSEdges == 5

-----------------------------------------------------------------------------
(* Values *)

\* the weight of an edge that has none: getWeight() is undefined, isNaN() holds
NaN == -1

\* Number.POSITIVE_INFINITY: above every finite weight and every sum of them
Infinity == 1000000

\* a property that was never set reads as undefined
Undefined == -2

DEFAULT_WEIGHT == 1

\* the two node objects of SpecNode: the node under test and another one
Self == "A"

Other == "B"

\* an edge object: id, endpoints a and b, directedness, weight
Edge(id, a, b, directed, weight) ==
  [id |-> id, a |-> a, b |-> b, directed |-> directed, weight |-> weight]

-----------------------------------------------------------------------------
(* JS objects used as maps keyed by edge id: a sequence of the values in    *)
(* key insertion order (edge ids are no array indices)                      *)

\* !!obj[id]
BucketHas(bucket, id) == \E i \in 1..Len(bucket) : bucket[i].id = id

\* obj[edge.id] = edge
BucketPut(bucket, edge) ==
  IF BucketHas(bucket, edge.id)
  THEN [i \in 1..Len(bucket) |-> IF bucket[i].id = edge.id THEN edge ELSE bucket[i]]
  ELSE Append(bucket, edge)

\* delete obj[id]
BucketDelete(bucket, id) == SelectSeq(bucket, LAMBDA x : x.id # id)

-----------------------------------------------------------------------------
(* BaseNode *)

\* constructor: empty buckets, counters 0
NewNode ==
  [in_edges |-> <<>>, out_edges |-> <<>>, und_edges |-> <<>>,
   in_degree |-> 0, out_degree |-> 0, und_degree |-> 0]

inDegree(nd) == nd.in_degree

outDegree(nd) == nd.out_degree

degree(nd) == nd.und_degree

\* the result of a method call: the node afterwards, and whether the call threw
Ret(nd, t) == [node |-> nd, threw |-> t]

\* addEdge without the duplicate check of the undirected branch: the edge is
\* stored again and counted again
BaseNode_addEdge_recountsUndirected(nd, self, edge) ==
  IF edge.a # self /\ edge.b # self
  THEN Ret(nd, TRUE)
  ELSE IF edge.directed
  THEN IF edge.a = self /\ ~BucketHas(nd.out_edges, edge.id)
       THEN LET n1 == [nd EXCEPT !.out_edges = BucketPut(@, edge),
                                 !.out_degree = @ + 1]
            IN  IF edge.b = self /\ ~BucketHas(n1.in_edges, edge.id)
                THEN Ret([n1 EXCEPT !.in_edges = BucketPut(@, edge),
                                    !.in_degree = @ + 1], FALSE)
                ELSE Ret(n1, FALSE)
       ELSE IF ~BucketHas(nd.in_edges, edge.id)
            THEN Ret([nd EXCEPT !.in_edges = BucketPut(@, edge),
                                !.in_degree = @ + 1], FALSE)
            ELSE Ret(nd, FALSE)
  ELSE Ret([nd EXCEPT !.und_edges = BucketPut(@, edge),
                      !.und_degree = @ + 1], FALSE)

\* BaseNode.addEdge on the node `self` whose state is nd
BaseNode_addEdge(nd, self, edge) ==
  IF edge.a # self /\ edge.b # self
  THEN Ret(nd, TRUE)
  ELSE IF edge.directed
  THEN IF edge.a = self /\ ~BucketHas(nd.out_edges, edge.id)
       THEN LET n1 == [nd EXCEPT !.out_edges = BucketPut(@, edge),
                                 !.out_degree = @ + 1]
            IN  IF edge.b = self /\ ~BucketHas(n1.in_edges, edge.id)
                THEN Ret([n1 EXCEPT !.in_edges = BucketPut(@, edge),
                                    !.in_degree = @ + 1], FALSE)
                ELSE Ret(n1, FALSE)
       ELSE IF ~BucketHas(nd.in_edges, edge.id)
            THEN Ret([nd EXCEPT !.in_edges = BucketPut(@, edge),
                                !.in_degree = @ + 1], FALSE)
            ELSE Ret(nd, FALSE)
  ELSE IF BucketHas(nd.und_edges, edge.id)
       THEN Ret(nd, TRUE)
       ELSE Ret([nd EXCEPT !.und_edges = BucketPut(@, edge),
                           !.und_degree = @ + 1], FALSE)

hasEdgeID(nd, id) ==
  BucketHas(nd.in_edges, id) \/ BucketHas(nd.out_edges, id) \/ BucketHas(nd.und_edges, id)

hasEdge(nd, edge) == hasEdgeID(nd, edge.id)

\* BaseNode.removeEdgeByID
BaseNode_removeEdgeByID(nd, id) ==
  IF ~hasEdgeID(nd, id)
  THEN Ret(nd, TRUE)
  ELSE LET n1 == IF BucketHas(nd.und_edges, id)
                 THEN [nd EXCEPT !.und_edges = BucketDelete(@, id), !.und_degree = @ - 1]
                 ELSE nd
           n2 == IF BucketHas(n1.in_edges, id)
                 THEN [n1 EXCEPT !.in_edges = BucketDelete(@, id), !.in_degree = @ - 1]
                 ELSE n1
           n3 == IF BucketHas(n2.out_edges, id)
                 THEN [n2 EXCEPT !.out_edges = BucketDelete(@, id), !.out_degree = @ - 1]
                 ELSE n2
       IN  Ret(n3, FALSE)

\* removeEdge that deletes from the incoming bucket without decrementing _in_degree
BaseNode_removeEdge_keepsInDegree(nd, edge) ==
  IF ~hasEdge(nd, edge)
  THEN Ret(nd, TRUE)
  ELSE LET id == edge.id
           n1 == IF BucketHas(nd.und_edges, id)
                 THEN [nd EXCEPT !.und_edges = BucketDelete(@, id), !.und_degree = @ - 1]
                 ELSE nd
           n2 == [n1 EXCEPT !.in_edges = BucketDelete(@, id)]
           n3 == IF BucketHas(n2.out_edges, id)
                 THEN [n2 EXCEPT !.out_edges = BucketDelete(@, id), !.out_degree = @ - 1]
                 ELSE n2
       IN  Ret(n3, FALSE)

\* BaseNode.removeEdge
BaseNode_removeEdge(nd, edge) ==
  IF ~hasEdge(nd, edge)
  THEN Ret(nd, TRUE)
  ELSE LET id == edge.id
           n1 == IF BucketHas(nd.und_edges, id)
                 THEN [nd EXCEPT !.und_edges = BucketDelete(@, id), !.und_degree = @ - 1]
                 ELSE nd
           n2 == IF BucketHas(n1.in_edges, id)
                 THEN [n1 EXCEPT !.in_edges = BucketDelete(@, id), !.in_degree = @ - 1]
                 ELSE n1
           n3 == IF BucketHas(n2.out_edges, id)
                 THEN [n2 EXCEPT !.out_edges = BucketDelete(@, id), !.out_degree = @ - 1]
                 ELSE n2
       IN  Ret(n3, FALSE)

clearOutEdges(nd) == [nd EXCEPT !.out_edges = <<>>, !.out_degree = 0]

clearInEdges(nd) == [nd EXCEPT !.in_edges = <<>>, !.in_degree = 0]

clearUndEdges(nd) == [nd EXCEPT !.und_edges = <<>>, !.und_degree = 0]

clearEdges(nd) == clearUndEdges(clearOutEdges(clearInEdges(nd)))

-----------------------------------------------------------------------------
(* SpecNode: any sequence of edge-method calls on one BaseNode, with edges  *)
(* whose ids are unique                                                     *)

\* the edge objects with a given id: any endpoints, either kind
EdgeObjs(id) ==
  { Edge(id, a, b, d, NaN) : a \in {Self, Other}, b \in {Self, Other}, d \in BOOLEAN }

Call(op, id) == [op |-> op, id |-> id]

InitNode ==
  /\ edgeOf \in { f \in [EdgeIds -> UNION { EdgeObjs(id) : id \in EdgeIds }] :
                     \A id \in EdgeIds : f[id].id = id }
  /\ node = NewNode
  /\ lastOp = Call("new", 0)
  /\ threw = FALSE
  /\ graph = <<>>
  /\ pfs = <<>>
  /\ typed = <<>>
  /\ pr = <<>> /\ io = <<>>

NodeAddEdge ==
  \E id \in EdgeIds :
    LET r == BaseNode_addEdge(node, Self, edgeOf[id])
    IN  /\ node' = r.node
        /\ threw' = r.threw
        /\ lastOp' = Call("addEdge", id)
        /\ UNCHANGED <<edgeOf, graph, pfs, typed, pr, io>>

NodeRemoveEdge ==
  \E id \in EdgeIds :
    LET r == BaseNode_removeEdge(node, edgeOf[id])
    IN  /\ node' = r.node
        /\ threw' = r.threw
        /\ lastOp' = Call("removeEdge", id)
        /\ UNCHANGED <<edgeOf, graph, pfs, typed, pr, io>>

NodeRemoveEdgeByID ==
  \E id \in EdgeIds :
    LET r == BaseNode_removeEdgeByID(node, id)
    IN  /\ node' = r.node
        /\ threw' = r.threw
        /\ lastOp' = Call("removeEdgeByID", id)
        /\ UNCHANGED <<edgeOf, graph, pfs, typed, pr, io>>

NodeClearInEdges ==
  /\ node' = clearInEdges(node)
  /\ threw' = FALSE
  /\ lastOp' = Call("clearInEdges", 0)
  /\ UNCHANGED <<edgeOf, graph, pfs, typed, pr, io>>

NodeClearOutEdges ==
  /\ node' = clearOutEdges(node)
  /\ threw' = FALSE
  /\ lastOp' = Call("clearOutEdges", 0)
  /\ UNCHANGED <<edgeOf, graph, pfs, typed, pr, io>>

NodeClearUndEdges ==
  /\ node' = clearUndEdges(node)
  /\ threw' = FALSE
  /\ lastOp' = Call("clearUndEdges", 0)
  /\ UNCHANGED <<edgeOf, graph, pfs, typed, pr, io>>

NodeClearEdges ==
  /\ node' = clearEdges(node)
  /\ threw' = FALSE
  /\ lastOp' = Call("clearEdges", 0)
  /\ UNCHANGED <<edgeOf, graph, pfs, typed, pr, io>>

NextNode ==
  \/ NodeAddEdge
  \/ NodeRemoveEdge
  \/ NodeRemoveEdgeByID
  \/ NodeClearInEdges
  \/ NodeClearOutEdges
  \/ NodeClearUndEdges
  \/ NodeClearEdges

SpecNode == InitNode /\ [][NextNode]_vars

-----------------------------------------------------------------------------
(* Claims about BaseNode *)

\* C1: after any sequence of addEdge, removeEdge, removeEdgeByID and clear*Edges
\* calls, throwing ones included, inDegree() is the number of entries of the
\* incoming bucket, outDegree() that of the outgoing bucket and degree() that of
\* the undirected bucket.
C1_DegreesEqualBucketSizes ==
  /\ inDegree(node) = Len(node.in_edges)
  /\ outDegree(node) = Len(node.out_edges)
  /\ degree(node) = Len(node.und_edges)

\* a call threw while all three buckets hold an edge
C1_Witness ==
  /\ threw
  /\ lastOp.op \in {"addEdge", "removeEdge", "removeEdgeByID"}
  /\ inDegree(node) >= 1 /\ outDegree(node) >= 1 /\ degree(node) >= 1

\* the edge object is the value stored under its id
InBucket(bucket, edge) == \E i \in 1..Len(bucket) : bucket[i] = edge

\* C2: a directed edge a -> b is in the outgoing bucket of n only if a = n and in
\* the incoming bucket only if b = n; once added, a directed self-loop is in both
\* buckets and a directed edge with a = n, b # n is in the outgoing bucket only.
C2_DirectedEdgesInTheirBuckets ==
  /\ \A i \in 1..Len(node.out_edges) : node.out_edges[i].a = Self
  /\ \A i \in 1..Len(node.in_edges) : node.in_edges[i].b = Self
  /\ \A id \in EdgeIds :
       LET e == edgeOf[id]
       IN  (lastOp = Call("addEdge", id) /\ e.directed /\ e.a = Self) =>
             /\ InBucket(node.out_edges, e)
             /\ InBucket(node.in_edges, e) <=> (e.b = Self)

\* the precondition under which C3 says addEdge fails
C3_MustFail(nd, edge) ==
  \/ edge.a # Self /\ edge.b # Self
  \/ ~edge.directed /\ BucketHas(nd.und_edges, edge.id)

\* C3: addEdge throws when the edge has neither endpoint equal to this node and
\* when the edge is undirected and its id is already in the undirected bucket;
\* the buckets and the degree counters are then what they were before the call.
C3_AddEdgeFailsUnchanged ==
  [][\A id \in EdgeIds :
       (lastOp' = Call("addEdge", id) /\ C3_MustFail(node, edgeOf[id]))
         => (threw' /\ node' = node)]_vars

\* addEdge was called with an undirected edge touching the node that is already
\* in the undirected bucket, and threw
C3_Witness ==
  /\ lastOp.op = "addEdge"
  /\ threw
  /\ ~edgeOf[lastOp.id].directed
  /\ edgeOf[lastOp.id].a = Self
  /\ InBucket(node.und_edges, edgeOf[lastOp.id])

-----------------------------------------------------------------------------
(* The graph container.  BaseGraph keeps its nodes in a plain object keyed  *)
(* by node id; every node is a BaseNode whose buckets are filled through    *)
(* BaseNode.addEdge.                                                        *)

\* the node ids used: "A" is no array index, "1" is one
NodeIds == {"A", "1"}

\* the ids that are canonical array indices, with their numeric value
ArrayIndex == ("1" :> 1) @@ ("2" :> 2) @@ ("3" :> 3)

IsArrayIndex(id) == id \in DOMAIN ArrayIndex

\* Object.keys(obj) / for (key in obj), for an object whose keys were created
\* in the order `inserted`: array-index keys ascending, then the others in
\* creation order
ObjectKeys(inserted) ==
  SortSeq(SelectSeq(inserted, IsArrayIndex),
          LAMBDA x, y : ArrayIndex[x] < ArrayIndex[y])
    \o SelectSeq(inserted, LAMBDA k : ~IsArrayIndex(k))

\* new BaseGraph: no nodes, no edges
EmptyGraph == [nodes |-> <<>>, node |-> <<>>, edges |-> <<>>]

hasNodeID(g, id) == id \in DOMAIN g.node

nrNodes(g) == Len(g.nodes)

GRet(g, t) == [graph |-> g, threw |-> t]

\* BaseGraph.addNodeByID: a duplicate id is an error
BaseGraph_addNodeByID(g, id) ==
  IF hasNodeID(g, id)
  THEN GRet(g, TRUE)
  ELSE GRet([g EXCEPT !.nodes = Append(@, id), !.node = @ @@ (id :> NewNode)], FALSE)

\* BaseGraph.addEdge: the endpoints must be nodes of the graph and the id new;
\* the edge is attached to a and, unless a = b, to b
BaseGraph_addEdge(g, edge) ==
  IF \/ ~hasNodeID(g, edge.a) \/ ~hasNodeID(g, edge.b)
     \/ BucketHas(g.edges, edge.id)
  THEN GRet(g, TRUE)
  ELSE LET na == BaseNode_addEdge(g.node[edge.a], edge.a, edge).node
           g1 == [g EXCEPT !.node[edge.a] = na]
           g2 == IF edge.a = edge.b
                 THEN g1
                 ELSE [g1 EXCEPT !.node[edge.b] =
                                   BaseNode_addEdge(g1.node[edge.b], edge.b, edge).node]
       IN  GRet([g2 EXCEPT !.edges = Append(@, edge)], FALSE)

-----------------------------------------------------------------------------
(* BaseNode neighbourhoods, on a node of a graph *)

NeighborEntry(n, e) == [node |-> n, edge |-> e]

prevNodes(g, id) ==
  [i \in 1..Len(g.node[id].in_edges) |->
     NeighborEntry(g.node[id].in_edges[i].a, g.node[id].in_edges[i])]

nextNodes(g, id) ==
  [i \in 1..Len(g.node[id].out_edges) |->
     NeighborEntry(g.node[id].out_edges[i].b, g.node[id].out_edges[i])]

connNodes(g, id) ==
  [i \in 1..Len(g.node[id].und_edges) |->
     LET e == g.node[id].und_edges[i]
     IN  IF e.a = id THEN NeighborEntry(e.b, e) ELSE NeighborEntry(e.a, e)]

\* mergeArrays with the default identity (a fresh number per entry) concatenates
reachNodes(g, id) == nextNodes(g, id) \o connNodes(g, id)

-----------------------------------------------------------------------------
(* ComputeGraph projections *)

isNaN(x) == x = NaN \/ x = Undefined

isFinite(x) == x # Undefined /\ x # NaN /\ x # Infinity

\* x || y
OrElse(x, y) == IF x = Undefined \/ x = NaN \/ x = 0 THEN y ELSE x

\* the body of neighbors.forEach in adjListW, with the mirror write of the
\* else branch storing the edge weight instead of cur_dist
adjListW_visit_mirrorsWeight(dict, key, ne, incoming) ==
  LET v == ne.node
      cur_dist == OrElse(dict[key][v], Infinity)
      cur_edge_weight == IF isNaN(ne.edge.weight) THEN DEFAULT_WEIGHT ELSE ne.edge.weight
  IN  IF cur_edge_weight < cur_dist
      THEN LET d1 == [dict EXCEPT ![key][v] = cur_edge_weight]
           IN  IF incoming THEN [d1 EXCEPT ![v][key] = cur_edge_weight] ELSE d1
      ELSE LET d1 == [dict EXCEPT ![key][v] = cur_dist]
           IN  IF incoming THEN [d1 EXCEPT ![v][key] = cur_edge_weight] ELSE d1

\* the body of neighbors.forEach in adjListW
adjListW_visit(dict, key, ne, incoming) ==
  LET v == ne.node
      cur_dist == OrElse(dict[key][v], Infinity)
      cur_edge_weight == IF isNaN(ne.edge.weight) THEN DEFAULT_WEIGHT ELSE ne.edge.weight
  IN  IF cur_edge_weight < cur_dist
      THEN LET d1 == [dict EXCEPT ![key][v] = cur_edge_weight]
           IN  IF incoming THEN [d1 EXCEPT ![v][key] = cur_edge_weight] ELSE d1
      ELSE LET d1 == [dict EXCEPT ![key][v] = cur_dist]
           IN  IF incoming THEN [d1 EXCEPT ![v][key] = cur_dist] ELSE d1

RECURSIVE adjListW_forEach(_, _, _, _)
adjListW_forEach(dict, key, neighbors, incoming) ==
  IF neighbors = <<>>
  THEN dict
  ELSE adjListW_forEach(adjListW_visit(dict, key, Head(neighbors), incoming),
                        key, Tail(neighbors), incoming)

RECURSIVE adjListW_forKeys(_, _, _, _)
adjListW_forKeys(g, dict, keys, incoming) ==
  IF keys = <<>>
  THEN dict
  ELSE LET key == Head(keys)
           neighbors == IF incoming
                        THEN reachNodes(g, key) \o prevNodes(g, key)
                        ELSE reachNodes(g, key)
       IN  adjListW_forKeys(g, adjListW_forEach(dict, key, neighbors, incoming),
                            Tail(keys), incoming)

\* ComputeGraph.adjListW: dict[u][v] is Undefined where the code leaves no entry
adjListW(g, incoming, include_self, self_dist) ==
  LET ids == DOMAIN g.node
      adj_list_dict == [u \in ids |-> [v \in ids |->
                          IF include_self /\ u = v THEN self_dist ELSE Undefined]]
  IN  adjListW_forKeys(g, adj_list_dict, ObjectKeys(g.nodes), incoming)

\* ComputeGraph.adjMatrixW that builds the dictionary without passing `incoming`
adjMatrixW_dropsIncoming(g, incoming, include_self, self_dist) ==
  LET node_keys == ObjectKeys(g.nodes)
      adjDict == adjListW(g, FALSE, include_self, self_dist)
  IN  [i \in 0..(nrNodes(g) - 1) |-> [j \in 0..(nrNodes(g) - 1) |->
         IF i = j THEN self_dist
         ELSE IF isFinite(adjDict[node_keys[i + 1]][node_keys[j + 1]])
              THEN adjDict[node_keys[i + 1]][node_keys[j + 1]]
              ELSE Infinity]]

\* ComputeGraph.adjMatrixW; rows and columns are numbered from 0
adjMatrixW(g, incoming, include_self, self_dist) ==
  LET node_keys == ObjectKeys(g.nodes)
      adjDict == adjListW(g, incoming, include_self, self_dist)
  IN  [i \in 0..(nrNodes(g) - 1) |-> [j \in 0..(nrNodes(g) - 1) |->
         IF i = j THEN self_dist
         ELSE IF isFinite(adjDict[node_keys[i + 1]][node_keys[j + 1]])
              THEN adjDict[node_keys[i + 1]][node_keys[j + 1]]
              ELSE Infinity]]

\* ComputeGraph.adjMatrix
adjMatrix(g) ==
  LET node_keys == ObjectKeys(g.nodes)
      adjDict == adjListW(g, FALSE, FALSE, 0)
  IN  [i \in 0..(nrNodes(g) - 1) |-> [j \in 0..(nrNodes(g) - 1) |->
         IF i = j THEN 0
         ELSE IF isFinite(adjDict[node_keys[i + 1]][node_keys[j + 1]]) THEN 1 ELSE 0]]

\* null in a cell of nextArray
Null == -3

\* ComputeGraph.nextArray; the one-element list of a cell is given by its element
nextArray(g, incoming) ==
  LET node_keys == ObjectKeys(g.nodes)
      adjDict == adjListW(g, incoming, TRUE, 0)
  IN  [i \in 0..(nrNodes(g) - 1) |-> [j \in 0..(nrNodes(g) - 1) |->
         IF i = j THEN j
         ELSE IF isFinite(adjDict[node_keys[i + 1]][node_keys[j + 1]]) THEN j ELSE Null]]

-----------------------------------------------------------------------------
(* SpecGraph: a graph built by addNodeByID and addEdge calls *)

\* an edge is unweighted (its weight reads as NaN and counts as 1) or weighted
Weights == {NaN, 0, MaxWeight}

InitGraph ==
  /\ graph = EmptyGraph
  /\ edgeOf = <<>> /\ node = NewNode /\ lastOp = Call("new", 0) /\ threw = FALSE
  /\ pfs = <<>>
  /\ typed = <<>>
  /\ pr = <<>> /\ io = <<>>

GraphAddNode ==
  \E id \in NodeIds :
    /\ graph' = BaseGraph_addNodeByID(graph, id).graph
    /\ UNCHANGED <<nodeVars, pfs, typed, pr, io>>

\* edge ids are given out in order: the next edge is number Len(edges) + 1
GraphAddEdge ==
  /\ Len(graph.edges) < MaxEdges
  /\ \E a \in NodeIds, b \in NodeIds, d \in BOOLEAN, w \in Weights :
       graph' = BaseGraph_addEdge(graph, Edge(Len(graph.edges) + 1, a, b, d, w)).graph
  /\ UNCHANGED <<nodeVars, pfs, typed, pr, io>>

NextGraph == GraphAddNode \/ GraphAddEdge

SpecGraph == InitGraph /\ [][NextGraph]_vars

-----------------------------------------------------------------------------
(* PageRankRandomWalk: the array data structures *)

\* $SU.mergeObjects: one object with the entries of all, later ones overwriting
RECURSIVE mergeObjects(_)
mergeObjects(objs) ==
  IF objs = <<>>
  THEN <<>>
  ELSE LET rest == mergeObjects(SubSeq(objs, 1, Len(objs) - 1))
           last == objs[Len(objs)]
           Put[k \in 0..Len(last)] ==
             IF k = 0 THEN rest ELSE BucketPut(Put[k - 1], last[k])
       IN  Put[Len(last)]

\* the position of key in keys, counted from 0
IndexOf(keys, key) == (CHOOSE i \in 1..Len(keys) : keys[i] = key) - 1

\* setPRArrayDataStructs with outDeg = outDegree alone
setPRArrayDataStructs_outDegreeOnly(g) ==
  LET keys == ObjectKeys(g.nodes)
      n == Len(keys)
      PR_index == [id \in DOMAIN g.node |-> IndexOf(keys, id)]
      pullOf(id) ==
        LET incomingEdges == mergeObjects(<<g.node[id].in_edges, g.node[id].und_edges>>)
        IN  [k \in 1..Len(incomingEdges) |->
               LET edge == incomingEdges[k]
                   source == IF edge.a = id THEN edge.b ELSE edge.a
               IN  PR_index[source]]
  IN  [PR_index |-> PR_index,
       outDeg |-> [i \in 0..(n - 1) |-> outDegree(g.node[keys[i + 1]])],
       pull |-> [i \in 0..(n - 1) |-> pullOf(keys[i + 1])]]

\* setPRArrayDataStructs that always pulls from endpoint a of an edge
setPRArrayDataStructs_pullsFromA(g) ==
  LET keys == ObjectKeys(g.nodes)
      n == Len(keys)
      PR_index == [id \in DOMAIN g.node |-> IndexOf(keys, id)]
      pullOf(id) ==
        LET incomingEdges == mergeObjects(<<g.node[id].in_edges, g.node[id].und_edges>>)
        IN  [k \in 1..Len(incomingEdges) |-> PR_index[incomingEdges[k].a]]
  IN  [PR_index |-> PR_index,
       outDeg |-> [i \in 0..(n - 1) |->
                     outDegree(g.node[keys[i + 1]]) + degree(g.node[keys[i + 1]])],
       pull |-> [i \in 0..(n - 1) |-> pullOf(keys[i + 1])]]

\* setPRArrayDataStructs: PR_index of every node, outDeg and pull by index
setPRArrayDataStructs(g) ==
  LET keys == ObjectKeys(g.nodes)
      n == Len(keys)
      PR_index == [id \in DOMAIN g.node |-> IndexOf(keys, id)]
      pullOf(id) ==
        LET incomingEdges == mergeObjects(<<g.node[id].in_edges, g.node[id].und_edges>>)
        IN  [k \in 1..Len(incomingEdges) |->
               LET edge == incomingEdges[k]
                   source == IF edge.a = id THEN edge.b ELSE edge.a
               IN  PR_index[source]]
  IN  [PR_index |-> PR_index,
       outDeg |-> [i \in 0..(n - 1) |->
                     outDegree(g.node[keys[i + 1]]) + degree(g.node[keys[i + 1]])],
       pull |-> [i \in 0..(n - 1) |-> pullOf(keys[i + 1])]]

\* getRankMapFromArray: the rank of every node id, read from curr at its PR_index
getRankMapFromArray(g, PR_index, curr) ==
  LET keys == ObjectKeys(g.nodes)
  IN  [key \in {keys[i] : i \in 1..Len(keys)} |-> curr[PR_index[key]]]

-----------------------------------------------------------------------------
(* Claims about the projections *)

\* the weight adjListW gives an edge
EffWeight(e) == IF e.weight = NaN THEN 1 ELSE e.weight

\* the edges of g that u can traverse towards v
Traversable(g, u, v, incoming) ==
  { i \in 1..Len(g.edges) :
      LET e == g.edges[i]
      IN  \/ e.directed /\ e.a = u /\ e.b = v
          \/ ~e.directed /\ ((e.a = u /\ e.b = v) \/ (e.a = v /\ e.b = u))
          \/ incoming /\ e.directed /\ e.a = v /\ e.b = u }

MinWeight(g, S) ==
  CHOOSE w \in {EffWeight(g.edges[i]) : i \in S} :
    \A i \in S : w <= EffWeight(g.edges[i])

\* C4: for every ordered pair (u, v) joined by one or more edges that u can
\* traverse towards v (outgoing or undirected; with incoming also incoming),
\* adjListW(incoming)[u][v] is the minimum of the weights of those edges, a
\* missing weight counting as 1, for all weights >= 0 and every insertion order.
C4_AdjListWIsMinimum ==
  \A incoming \in BOOLEAN :
    \A u \in DOMAIN graph.node, v \in DOMAIN graph.node :
      Traversable(graph, u, v, incoming) # {} =>
        adjListW(graph, incoming, FALSE, 0)[u][v]
          = MinWeight(graph, Traversable(graph, u, v, incoming))

\* the values of self_dist tried
SelfDists == {0, MaxWeight, Infinity}

\* C5 as stated: for all arguments and every pair of indices (i, j) with node
\* ids (u, v), adjMatrixW[i][j] is finite iff adjListW[u][v] is a finite number.
C5_FiniteIffEverywhere ==
  \A incoming \in BOOLEAN, include_self \in BOOLEAN, self_dist \in SelfDists :
    LET keys == ObjectKeys(graph.nodes)
        M == adjMatrixW(graph, incoming, include_self, self_dist)
        L == adjListW(graph, incoming, include_self, self_dist)
    IN  \A i \in 0..(nrNodes(graph) - 1), j \in 0..(nrNodes(graph) - 1) :
          isFinite(M[i][j]) <=> isFinite(L[keys[i + 1]][keys[j + 1]])

\* C5 amended: for all arguments and every pair of distinct indices i # j with
\* node ids (u, v), adjMatrixW[i][j] is finite iff adjListW[u][v] is a finite
\* number; the diagonal cell (i, i) is self_dist whatever adjListW[u][u] is.
C5_FiniteIffOffDiagonal ==
  \A incoming \in BOOLEAN, include_self \in BOOLEAN, self_dist \in SelfDists :
    LET keys == ObjectKeys(graph.nodes)
        M == adjMatrixW(graph, incoming, include_self, self_dist)
        L == adjListW(graph, incoming, include_self, self_dist)
    IN  \A i \in 0..(nrNodes(graph) - 1), j \in 0..(nrNodes(graph) - 1) :
          IF i = j
          THEN M[i][j] = self_dist
          ELSE isFinite(M[i][j]) <=> isFinite(L[keys[i + 1]][keys[j + 1]])

\* two nodes joined by a directed edge only: with incoming the cell against the
\* edge is finite, without it the cell is infinite
C5_Witness ==
  /\ nrNodes(graph) = 2
  /\ \E i \in {0, 1} :
       /\ isFinite(adjMatrixW(graph, TRUE, FALSE, 0)[i][1 - i])
       /\ ~isFinite(adjMatrixW(graph, FALSE, FALSE, 0)[i][1 - i])

UndirectedOnly(g) == \A i \in 1..Len(g.edges) : ~g.edges[i].directed

\* C6: for a graph with only undirected edges, adjMatrixW(incoming = true) is
\* symmetric, also with parallel edges of different weights.
C6_UndirectedSymmetric ==
  UndirectedOnly(graph) =>
    \A include_self \in BOOLEAN, self_dist \in SelfDists :
      LET M == adjMatrixW(graph, TRUE, include_self, self_dist)
      IN  \A i \in 0..(nrNodes(graph) - 1), j \in 0..(nrNodes(graph) - 1) :
            M[i][j] = M[j][i]

\* two undirected parallel edges of different weights join two different nodes
C6_Witness ==
  /\ UndirectedOnly(graph)
  /\ \E i \in 1..Len(graph.edges), j \in 1..Len(graph.edges) :
       /\ graph.edges[i].a # graph.edges[i].b
       /\ {graph.edges[i].a, graph.edges[i].b} = {graph.edges[j].a, graph.edges[j].b}
       /\ EffWeight(graph.edges[i]) < EffWeight(graph.edges[j])

\* C7: row/column i of adjMatrix, adjMatrixW and nextArray and PR_index = i all
\* denote the i-th node in insertion order; PR_index is a bijection from the
\* nodes onto 0..n-1 and the rank map has exactly one entry per node id.
C7_IndexIsInsertionOrder ==
  LET n == nrNodes(graph)
      ins(i) == graph.nodes[i + 1]
      L == adjListW(graph, FALSE, FALSE, 0)
      LW == adjListW(graph, TRUE, FALSE, 0)
      LN == adjListW(graph, FALSE, TRUE, 0)
      ds == setPRArrayDataStructs(graph)
  IN  /\ \A i \in 0..(n - 1), j \in 0..(n - 1) :
           i # j =>
             /\ adjMatrix(graph)[i][j] = 1 <=> isFinite(L[ins(i)][ins(j)])
             /\ isFinite(adjMatrixW(graph, TRUE, FALSE, 0)[i][j])
                  <=> isFinite(LW[ins(i)][ins(j)])
             /\ nextArray(graph, FALSE)[i][j] = j <=> isFinite(LN[ins(i)][ins(j)])
      /\ \A i \in 0..(n - 1) : ds.PR_index[ins(i)] = i
      /\ {ds.PR_index[id] : id \in DOMAIN graph.node} = 0..(n - 1)
      /\ \A a \in DOMAIN graph.node, b \in DOMAIN graph.node :
           ds.PR_index[a] = ds.PR_index[b] => a = b
      /\ DOMAIN getRankMapFromArray(graph, ds.PR_index, [i \in 0..(n - 1) |-> i])
           = DOMAIN graph.node

-----------------------------------------------------------------------------
(* Claims about the PageRank data structures *)

\* C12: in every graph built by addNode and addEdge, every index j that occurs
\* in some pull[i] has outDeg[j] > 0, so the zero-divisor failure of getPRArray
\* cannot happen; directed and undirected self-loops included
C12_NoZeroDivisor ==
  LET ds == setPRArrayDataStructs(graph)
  IN  \A i \in DOMAIN ds.pull : \A k \in 1..Len(ds.pull[i]) :
        ds.outDeg[ds.pull[i][k]] > 0

\* a directed and an undirected self-loop, both pulled from
C12_Witness ==
  /\ \E i \in 1..Len(graph.edges) :
       graph.edges[i].directed /\ graph.edges[i].a = graph.edges[i].b
  /\ \E i \in 1..Len(graph.edges) :
       ~graph.edges[i].directed /\ graph.edges[i].a = graph.edges[i].b
  /\ \E i \in DOMAIN setPRArrayDataStructs(graph).pull :
       Len(setPRArrayDataStructs(graph).pull[i]) = 2

\* how often index j occurs in the list pull_i
Occurrences(pull_i, j) == Cardinality({k \in 1..Len(pull_i) : pull_i[k] = j})

RECURSIVE SumOver(_, _)
SumOver(f, S) ==
  IF S = {} THEN 0
  ELSE LET x == CHOOSE y \in S : TRUE IN f[x] + SumOver(f, S \ {x})

\* C19: for every node index j the number of occurrences of j over all pull
\* lists equals outDeg[j] = outDegree(j) + degree(j); between two nodes u, v
\* the index of u occurs in pull[v] once for each directed edge u -> v and once
\* for each undirected edge that joins them
C19_PullMatchesOutDeg ==
  LET ds == setPRArrayDataStructs(graph)
      idx == ds.PR_index
  IN  /\ \A u \in DOMAIN graph.node :
           /\ SumOver([i \in DOMAIN ds.pull |-> Occurrences(ds.pull[i], idx[u])],
                      DOMAIN ds.pull) = ds.outDeg[idx[u]]
           /\ ds.outDeg[idx[u]] = outDegree(graph.node[u]) + degree(graph.node[u])
      /\ \A u \in DOMAIN graph.node, v \in DOMAIN graph.node :
           Occurrences(ds.pull[idx[v]], idx[u])
             = Cardinality({i \in 1..Len(graph.edges) :
                  LET e == graph.edges[i]
                  IN  \/ e.directed /\ e.a = u /\ e.b = v
                      \/ ~e.directed /\ {e.a, e.b} = {u, v}})

\* a directed and an undirected edge between two different nodes
C19_Witness ==
  /\ \E i \in 1..Len(graph.edges) :
       graph.edges[i].directed /\ graph.edges[i].a # graph.edges[i].b
  /\ \E i \in 1..Len(graph.edges) :
       ~graph.edges[i].directed /\ graph.edges[i].a # graph.edges[i].b
  /\ \E j \in DOMAIN setPRArrayDataStructs(graph).outDeg :
       setPRArrayDataStructs(graph).outDeg[j] = 2

-----------------------------------------------------------------------------
(* Priority-first search and Dijkstra *)

\* a + b on distances, Infinity absorbing
Plus(a, b) == IF a = Infinity \/ b = Infinity THEN Infinity ELSE a + b

\* the neighbourhood PFS follows from a node under a direction mode
PFS_neighbors(g, id, dir_mode) ==
  CASE dir_mode = "OUT" -> nextNodes(g, id)
    [] dir_mode = "IN" -> prevNodes(g, id)
    [] dir_mode = "UND" -> connNodes(g, id)
    [] OTHER -> reachNodes(g, id)

\* null where a node is expected (goal_node, parent)
NoNode == "null"

\* the standard configuration: follow outgoing edges, no goal node
preparePFSStandardConfig == [dir_mode |-> "OUT", goal_node |-> NoNode]

\* the position of the first entry of minimal priority in a non-empty queue
PFS_minIndex(queue) ==
  CHOOSE i \in 1..Len(queue) :
    /\ \A j \in 1..Len(queue) : queue[i].priority <= queue[j].priority
    /\ \A j \in 1..(i - 1) : queue[j].priority > queue[i].priority

PFS_remove(queue, i) == SubSeq(queue, 1, i - 1) \o SubSeq(queue, i + 1, Len(queue))

\* one candidate ne seen from current: first encounter, better path, tie or nothing
PFS_relax(st, current, ne) ==
  LET target == ne.node
      weight == IF isNaN(ne.edge.weight) THEN DEFAULT_WEIGHT ELSE ne.edge.weight
      proposed == Plus(st.result[current].distance, weight)
      adj == st.result[target].distance
  IN  IF adj = Infinity
      THEN [st EXCEPT !.result[target] =
                        [distance |-> proposed, parent |-> current, counter |-> st.counter],
                      !.counter = @ + 1,
                      !.queue = Append(@, [id |-> target, priority |-> proposed])]
      ELSE IF proposed < adj
      THEN [st EXCEPT !.result[target].distance = proposed,
                      !.result[target].parent = current,
                      !.queue = Append(@, [id |-> target, priority |-> proposed])]
      ELSE st

RECURSIVE PFS_expand(_, _, _)
PFS_expand(st, current, neighbors) ==
  IF neighbors = <<>>
  THEN st
  ELSE PFS_expand(PFS_relax(st, current, Head(neighbors)), current, Tail(neighbors))

RECURSIVE PFS_loop(_, _, _)
PFS_loop(g, config, st) ==
  IF st.queue = <<>>
  THEN st.result
  ELSE LET i == PFS_minIndex(st.queue)
           current == st.queue[i].id
           popped == [st EXCEPT !.queue = PFS_remove(@, i)]
       IN  IF current = config.goal_node
           THEN st.result
           ELSE PFS_loop(g, config,
                         PFS_expand(popped, current,
                                    PFS_neighbors(g, current, config.dir_mode)))

\* PFS(graph, source, config): the result map {id: {distance, parent, counter}}
PFS(g, source, config) ==
  LET result == [id \in DOMAIN g.node |->
                   IF id = source
                   THEN [distance |-> 0, parent |-> source, counter |-> 0]
                   ELSE [distance |-> Infinity, parent |-> NoNode, counter |-> -1]]
  IN  PFS_loop(g, config,
               [queue |-> <<[id |-> source, priority |-> 0]>>,
                result |-> result, counter |-> 1])

\* Dijkstra whose goal node is set although no target is given
Dijkstra_goalWithoutTarget(g, source, target) ==
  PFS(g, source, [preparePFSStandardConfig EXCEPT !.goal_node = source])

\* Dijkstra(graph, source, target?); target = NoNode when it is not given
Dijkstra(g, source, target) ==
  LET config == IF target # NoNode
                THEN [preparePFSStandardConfig EXCEPT !.goal_node = target]
                ELSE preparePFSStandardConfig
  IN  PFS(g, source, config)

-----------------------------------------------------------------------------
(* SpecPFS: a weighted graph on four nodes is built edge by edge from a     *)
(* list of candidate edges, then searched from a source                     *)

PFSNodes == <<"A", "B", "C", "D">>

\* the candidate edges, in the order they can be added: the five edges of the
\* scenario A->B(1), A->C(4), B->C(2), B->D(6), C->D(3), then a back edge of
\* weight 0 and an undirected edge
PFSCandidates ==
  << [a |-> "A", b |-> "B", directed |-> TRUE, weight |-> 1],
     [a |-> "A", b |-> "C", directed |-> TRUE, weight |-> 4],
     [a |-> "B", b |-> "C", directed |-> TRUE, weight |-> 2],
     [a |-> "B", b |-> "D", directed |-> TRUE, weight |-> 6],
     [a |-> "C", b |-> "D", directed |-> TRUE, weight |-> 3],
     [a |-> "C", b |-> "A", directed |-> TRUE, weight |-> 0],
     [a |-> "D", b |-> "B", directed |-> FALSE, weight |-> 2] >>

DirModes == {"OUT", "IN", "UND", "MIXED"}

RECURSIVE AddNodes(_, _)
AddNodes(g, ids) ==
  IF ids = <<>> THEN g ELSE AddNodes(BaseGraph_addNodeByID(g, Head(ids)).graph, Tail(ids))

\* no search has run yet
NoResult ==
  [done |-> FALSE, source |-> NoNode, dir_mode |-> "OUT",
   result |-> [id \in {PFSNodes[i] : i \in 1..Len(PFSNodes)} |->
                 [distance |-> Infinity, parent |-> NoNode, counter |-> -1]]]

InitPFS ==
  /\ pfs = [graph |-> AddNodes(EmptyGraph, PFSNodes), last |-> 0, run |-> NoResult]
  /\ edgeOf = <<>> /\ node = NewNode /\ lastOp = Call("new", 0) /\ threw = FALSE
  /\ graph = <<>>
  /\ typed = <<>>
  /\ pr = <<>> /\ io = <<>>

\* add a later candidate, as a weighted or as an unweighted edge
PFSAddEdge ==
  /\ ~pfs.run.done
  /\ Len(pfs.graph.edges) < MaxPFSEdges
  /\ \E k \in (pfs.last + 1)..Len(PFSCandidates), weighted \in BOOLEAN :
       LET c == PFSCandidates[k]
           e == Edge(k, c.a, c.b, c.directed, IF weighted THEN c.weight ELSE NaN)
       IN  pfs' = [pfs EXCEPT !.graph = BaseGraph_addEdge(@, e).graph, !.last = k]
  /\ UNCHANGED <<nodeVars, graph, typed, pr, io>>

\* Dijkstra(graph, source) without a target
PFSDijkstra ==
  /\ ~pfs.run.done
  /\ \E source \in DOMAIN pfs.graph.node :
       pfs' = [pfs EXCEPT !.run = [done |-> TRUE, source |-> source, dir_mode |-> "OUT",
                                   result |-> Dijkstra(pfs.graph, source, NoNode)]]
  /\ UNCHANGED <<nodeVars, graph, typed, pr, io>>

\* PFS(graph, source, config) with another direction mode and no goal node
PFSRun ==
  /\ ~pfs.run.done
  /\ \E source \in DOMAIN pfs.graph.node, mode \in DirModes \ {"OUT"} :
       pfs' = [pfs EXCEPT !.run = [done |-> TRUE, source |-> source, dir_mode |-> mode,
                                   result |-> PFS(pfs.graph, source,
                                                  [dir_mode |-> mode, goal_node |-> NoNode])]]
  /\ UNCHANGED <<nodeVars, graph, typed, pr, io>>

NextPFS == PFSAddEdge \/ PFSDijkstra \/ PFSRun

SpecPFS == InitPFS /\ [][NextPFS]_vars

-----------------------------------------------------------------------------
(* Claims about Dijkstra / PFS *)

\* the arcs a search can follow under a direction mode: <<from, to, weight>>
Arcs(g, dir_mode) ==
  UNION { LET e == g.edges[i]
              w == EffWeight(e)
          IN  IF e.directed
              THEN (IF dir_mode \in {"OUT", "MIXED"} THEN {<<e.a, e.b, w>>} ELSE {})
                     \cup (IF dir_mode = "IN" THEN {<<e.b, e.a, w>>} ELSE {})
              ELSE IF dir_mode \in {"UND", "MIXED"}
                   THEN {<<e.a, e.b, w>>, <<e.b, e.a, w>>}
                   ELSE {}
          : i \in 1..Len(g.edges) }

SetMin(S) == CHOOSE x \in S : \A y \in S : x <= y

\* the weight of a minimum-weight path from source to every node with at most
\* k arcs; Infinity where there is none
RECURSIVE MinPath(_, _, _, _)
MinPath(g, dir_mode, source, k) ==
  IF k = 0
  THEN [v \in DOMAIN g.node |-> IF v = source THEN 0 ELSE Infinity]
  ELSE LET prev == MinPath(g, dir_mode, source, k - 1)
       IN  [v \in DOMAIN g.node |->
              SetMin({prev[v]} \cup
                     {Plus(prev[arc[1]], arc[3]) : arc \in {x \in Arcs(g, dir_mode) : x[2] = v}})]

\* the graph of the scenario: all five edges, weighted
IsScenarioS1(g) ==
  /\ Len(g.edges) = 5
  /\ \A i \in 1..5 : g.edges[i].id = i /\ g.edges[i].weight = PFSCandidates[i].weight

\* C8: Dijkstra / PFS from a source, without goal node, on non-negative weights:
\* result[v].distance is the weight of a minimum-weight path from the source to v
\* for every v reachable under the direction mode and infinity for every other v;
\* on A->B(1), A->C(4), B->C(2), B->D(6), C->D(3) from A: A:0, B:1, C:3, D:6.
C8_DistancesAreShortest ==
  pfs.run.done =>
    LET g == pfs.graph
        best == MinPath(g, pfs.run.dir_mode, pfs.run.source, nrNodes(g) - 1)
    IN  /\ \A v \in DOMAIN g.node : pfs.run.result[v].distance = best[v]
        /\ (IsScenarioS1(g) /\ pfs.run.source = "A" /\ pfs.run.dir_mode = "OUT") =>
             /\ pfs.run.result["A"].distance = 0
             /\ pfs.run.result["B"].distance = 1
             /\ pfs.run.result["C"].distance = 3
             /\ pfs.run.result["D"].distance = 6

\* Dijkstra has run from A on the graph of the scenario
C8_Witness ==
  /\ pfs.run.done
  /\ IsScenarioS1(pfs.graph)
  /\ pfs.run.source = "A"
  /\ pfs.run.dir_mode = "OUT"
  /\ pfs.run.result["D"].distance = 6

-----------------------------------------------------------------------------
(* BaseGraph: deletion *)

Restrict(f, S) == IF S = {} THEN <<>> ELSE [k \in S |-> f[k]]

\* BaseGraph.deleteEdge: an edge that is not in the graph is an error; the
\* edge is detached from both endpoints
BaseGraph_deleteEdge(g, edge) ==
  IF ~BucketHas(g.edges, edge.id)
  THEN GRet(g, TRUE)
  ELSE LET g1 == [g EXCEPT !.node[edge.a] =
                             BaseNode_removeEdge(g.node[edge.a], edge).node]
           g2 == IF edge.a = edge.b
                 THEN g1
                 ELSE [g1 EXCEPT !.node[edge.b] =
                                   BaseNode_removeEdge(g1.node[edge.b], edge).node]
       IN  GRet([g2 EXCEPT !.edges = BucketDelete(@, edge.id)], FALSE)

\* the edge removers of deleteNode: every edge that touches the node goes
RECURSIVE BaseGraph_deleteEdgesOf(_, _)
BaseGraph_deleteEdgesOf(g, id) ==
  LET incident == SelectSeq(g.edges, LAMBDA e : e.a = id \/ e.b = id)
  IN  IF incident = <<>>
      THEN g
      ELSE BaseGraph_deleteEdgesOf(BaseGraph_deleteEdge(g, incident[1]).graph, id)

\* BaseGraph.deleteNode: a node that is not in the graph is an error; the
\* incident edges are removed first
BaseGraph_deleteNode(g, id) ==
  IF ~hasNodeID(g, id)
  THEN GRet(g, TRUE)
  ELSE LET g1 == BaseGraph_deleteEdgesOf(g, id)
       IN  GRet([g1 EXCEPT !.nodes = SelectSeq(@, LAMBDA x : x # id),
                           !.node = Restrict(@, DOMAIN @ \ {id})], FALSE)

-----------------------------------------------------------------------------
(* TypedGraph *)

GENERIC_TYPE == "GENERIC"

\* String.prototype.toUpperCase, on the strings used as ids and labels
ToUpperCase(s) ==
  CASE s = "a" -> "A"
    [] s = "e" -> "E"
    [] s = "person" -> "PERSON"
    [] s = "likes" -> "LIKES"
    [] OTHER -> s

\* a Map: its entries in insertion order
MapHas(mp, k) == \E i \in 1..Len(mp) : mp[i].key = k

MapGet(mp, k) == mp[CHOOSE i \in 1..Len(mp) : mp[i].key = k].value

MapSet(mp, k, v) ==
  IF MapHas(mp, k)
  THEN [i \in 1..Len(mp) |-> IF mp[i].key = k THEN [key |-> k, value |-> v] ELSE mp[i]]
  ELSE Append(mp, [key |-> k, value |-> v])

MapDelete(mp, k) == SelectSeq(mp, LAMBDA x : x.key # k)

\* a node and an edge as TypedGraph sees them: id and label
TypedNode(id, label) == [id |-> id, label |-> label]

TypedEdge(id, a, b, directed, label) ==
  [id |-> id, a |-> a, b |-> b, directed |-> directed, weight |-> NaN,
   label |-> label]

\* constructor: the base graph, and a GENERIC bucket in each map
NewTypedGraph ==
  [g |-> EmptyGraph,
   typedNodes |-> <<[key |-> GENERIC_TYPE, value |-> <<>>]>>,
   typedEdges |-> <<[key |-> GENERIC_TYPE, value |-> <<>>]>>]

nodeTypes(t) == [i \in 1..Len(t.typedNodes) |-> t.typedNodes[i].key]

edgeTypes(t) == [i \in 1..Len(t.typedEdges) |-> t.typedEdges[i].key]

nrTypedNodes(t, type) ==
  IF MapHas(t.typedNodes, ToUpperCase(type))
  THEN Len(MapGet(t.typedNodes, ToUpperCase(type)))
  ELSE Null

nrTypedEdges(t, type) ==
  IF MapHas(t.typedEdges, ToUpperCase(type))
  THEN Len(MapGet(t.typedEdges, ToUpperCase(type)))
  ELSE Null

\* outcome of a method: the graph afterwards, whether it threw, and the bucket
\* name it computed
TRet(t, thrown, type) == [typed |-> t, threw |-> thrown, type |-> type]

\* lines 92-100 and 136-144: the entity goes to GENERIC when its id equals
\* the uppercased label, else to the bucket of the uppercased label, which is
\* created when missing; get(GENERIC_TYPE) of a map without that bucket is
\* undefined and the call of set on it throws
TypedPlace(buckets, entity) ==
  LET label == ToUpperCase(entity.label)
  IN  IF entity.id = label
      THEN IF MapHas(buckets, GENERIC_TYPE)
           THEN [buckets |-> MapSet(buckets, GENERIC_TYPE,
                                    MapSet(MapGet(buckets, GENERIC_TYPE), entity.id, entity)),
                 threw |-> FALSE, type |-> GENERIC_TYPE]
           ELSE [buckets |-> buckets, threw |-> TRUE, type |-> GENERIC_TYPE]
      ELSE LET b1 == IF MapHas(buckets, label) THEN buckets
                     ELSE MapSet(buckets, label, <<>>)
           IN  [buckets |-> MapSet(b1, label, MapSet(MapGet(b1, label), entity.id, entity)),
                threw |-> FALSE, type |-> label]

\* lines 106-119 and 150-163: the bucket is GENERIC when the label equals the
\* id, else the uppercased label; a missing bucket or a missing member is an
\* error; the member is deleted and a bucket of size 0 is deleted too
TypedRemove(buckets, entity) ==
  LET label == IF entity.label = entity.id THEN GENERIC_TYPE
               ELSE ToUpperCase(entity.label)
  IN  IF ~MapHas(buckets, label)
      THEN [buckets |-> buckets, threw |-> TRUE, type |-> label]
      ELSE IF ~MapHas(MapGet(buckets, label), entity.id)
      THEN [buckets |-> buckets, threw |-> TRUE, type |-> label]
      ELSE LET b1 == MapSet(buckets, label, MapDelete(MapGet(buckets, label), entity.id))
               size == IF MapHas(b1, ToUpperCase(label))
                       THEN Len(MapGet(b1, ToUpperCase(label)))
                       ELSE Null
           IN  [buckets |-> IF size = 0 THEN MapDelete(b1, label) ELSE b1,
                threw |-> FALSE, type |-> label]

\* TypedGraph.addNode: super.addNode first, then the typed overlay
TypedGraph_addNode(t, nd) ==
  LET base == BaseGraph_addNodeByID(t.g, nd.id)
  IN  IF base.threw
      THEN TRet(t, TRUE, "")
      ELSE LET pl == TypedPlace(t.typedNodes, nd)
           IN  TRet([t EXCEPT !.g = base.graph, !.typedNodes = pl.buckets],
                    pl.threw, pl.type)

\* TypedGraph.deleteNode: the typed overlay first, then super.deleteNode
TypedGraph_deleteNode(t, nd) ==
  LET rm == TypedRemove(t.typedNodes, nd)
  IN  IF rm.threw
      THEN TRet(t, TRUE, rm.type)
      ELSE LET base == BaseGraph_deleteNode(t.g, nd.id)
           IN  TRet([t EXCEPT !.typedNodes = rm.buckets, !.g = base.graph],
                    base.threw, rm.type)

\* TypedGraph.addEdge: super.addEdge first, then the typed overlay
TypedGraph_addEdge(t, edge) ==
  LET base == BaseGraph_addEdge(t.g, edge)
  IN  IF base.threw
      THEN TRet(t, TRUE, "")
      ELSE LET pl == TypedPlace(t.typedEdges, edge)
           IN  TRet([t EXCEPT !.g = base.graph, !.typedEdges = pl.buckets],
                    pl.threw, pl.type)

\* TypedGraph.deleteEdge: the typed overlay first, then super.deleteEdge
TypedGraph_deleteEdge(t, edge) ==
  LET rm == TypedRemove(t.typedEdges, edge)
  IN  IF rm.threw
      THEN TRet(t, TRUE, rm.type)
      ELSE LET base == BaseGraph_deleteEdge(t.g, edge)
           IN  TRet([t EXCEPT !.typedEdges = rm.buckets, !.g = base.graph],
                    base.threw, rm.type)

\* BaseGraph counters and mode
nrDirEdges(g) == Len(SelectSeq(g.edges, LAMBDA e : e.directed))

nrUndEdges(g) == Len(SelectSeq(g.edges, LAMBDA e : ~e.directed))

getMode(g) ==
  IF nrDirEdges(g) > 0
  THEN IF nrUndEdges(g) > 0 THEN "MIXED" ELSE "DIRECTED"
  ELSE IF nrUndEdges(g) > 0 THEN "UNDIRECTED" ELSE "INIT"

\* BaseGraph.getStats; the densities are functions of the three counters
BaseGraph_getStats(g) ==
  [nr_nodes |-> nrNodes(g), nr_dir_edges |-> nrDirEdges(g),
   nr_und_edges |-> nrUndEdges(g), mode |-> getMode(g)]

\* TypedGraph.getStats: the base stats, the type names in the order of the
\* maps, and the size of each bucket by name
TypedGraph_getStats(t) ==
  BaseGraph_getStats(t.g) @@
  [node_types |-> nodeTypes(t),
   edge_types |-> edgeTypes(t),
   typed_nodes |-> {<<t.typedNodes[i].key, Len(t.typedNodes[i].value)>> :
                      i \in 1..Len(t.typedNodes)},
   typed_edges |-> {<<t.typedEdges[i].key, Len(t.typedEdges[i].value)>> :
                      i \in 1..Len(t.typedEdges)}]

-----------------------------------------------------------------------------
(* A TypedGraph under addNode, deleteNode, addEdge and deleteEdge *)

\* node objects: an untyped node, an untyped node with a lowercase id, a typed one
TNodes == {TypedNode("A", "A"), TypedNode("a", "a"), TypedNode("P", "person")}

\* edge objects: likewise; directed and undirected, one of them a loop
TEdges ==
  {TypedEdge("E", "A", "P", TRUE, "E"), TypedEdge("e", "A", "A", FALSE, "e"),
   TypedEdge("L", "P", "a", TRUE, "likes")}

InitTyped ==
  /\ typed = NewTypedGraph
  /\ edgeOf = <<>> /\ node = NewNode /\ lastOp = Call("new", 0) /\ threw = FALSE
  /\ graph = <<>>
  /\ pfs = <<>>
  /\ pr = <<>> /\ io = <<>>

TypedAddNode ==
  /\ \E nd \in TNodes : typed' = TypedGraph_addNode(typed, nd).typed
  /\ UNCHANGED <<nodeVars, graph, pfs, pr, io>>

TypedDeleteNode ==
  /\ \E nd \in TNodes : typed' = TypedGraph_deleteNode(typed, nd).typed
  /\ UNCHANGED <<nodeVars, graph, pfs, pr, io>>

TypedAddEdge ==
  /\ \E edge \in TEdges : typed' = TypedGraph_addEdge(typed, edge).typed
  /\ UNCHANGED <<nodeVars, graph, pfs, pr, io>>

TypedDeleteEdge ==
  /\ \E edge \in TEdges : typed' = TypedGraph_deleteEdge(typed, edge).typed
  /\ UNCHANGED <<nodeVars, graph, pfs, pr, io>>

NextTyped == TypedAddNode \/ TypedDeleteNode \/ TypedAddEdge \/ TypedDeleteEdge

SpecTyped == InitTyped /\ [][NextTyped]_vars

-----------------------------------------------------------------------------
(* Claims about TypedGraph *)

\* the bucket an entity belongs to: GENERIC when its label equals its id,
\* else the one named by its uppercased label
ExpectedType(entity) ==
  IF entity.label = entity.id THEN GENERIC_TYPE ELSE ToUpperCase(entity.label)

InTypedBucket(buckets, type, id) ==
  MapHas(buckets, type) /\ MapHas(MapGet(buckets, type), id)

\* C9: every addNode and addEdge call that returns leaves an entity whose
\* label equals its id in the GENERIC bucket and every other entity in the
\* bucket named by its uppercased label, whatever the case of the id's letters
C9_PlacedByLabel ==
  [][/\ \A nd \in TNodes :
          LET r == TypedGraph_addNode(typed, nd)
          IN  (~r.threw /\ typed' = r.typed)
                => InTypedBucket(typed'.typedNodes, ExpectedType(nd), nd.id)
     /\ \A edge \in TEdges :
          LET r == TypedGraph_addEdge(typed, edge)
          IN  (~r.threw /\ typed' = r.typed)
                => InTypedBucket(typed'.typedEdges, ExpectedType(edge), edge.id)]_vars

BucketsOf(buckets, id) == {i \in 1..Len(buckets) : MapHas(buckets[i].value, id)}

RECURSIVE SumSizes(_)
SumSizes(buckets) ==
  IF buckets = <<>> THEN 0 ELSE Len(Head(buckets).value) + SumSizes(Tail(buckets))

OneBucketEach ==
  /\ \A i \in 1..Len(typed.g.nodes) :
       Cardinality(BucketsOf(typed.typedNodes, typed.g.nodes[i])) = 1
  /\ \A i \in 1..Len(typed.g.edges) :
       Cardinality(BucketsOf(typed.typedEdges, typed.g.edges[i].id)) = 1
  /\ SumSizes(typed.typedNodes) = nrNodes(typed.g)
  /\ SumSizes(typed.typedEdges) = Len(typed.g.edges)

EmptiedBucketsGo(before, after) ==
  \A i \in 1..Len(before) :
    (Len(before[i].value) > 0 /\ MapHas(after, before[i].key))
      => Len(MapGet(after, before[i].key)) > 0

\* C10: after any sequence of addNode, deleteNode, addEdge and deleteEdge
\* calls every node of the graph is in exactly one typed-node bucket and every
\* edge in exactly one typed-edge bucket, the bucket sizes sum to the number
\* of nodes and of edges, and a bucket that loses its last member is removed
C10_OneBucketEach ==
  /\ []OneBucketEach
  /\ [][/\ EmptiedBucketsGo(typed.typedNodes, typed'.typedNodes)
        /\ EmptiedBucketsGo(typed.typedEdges, typed'.typedEdges)]_vars

\* C11: in every state, adding an edge with addEdge and then deleting the same
\* edge with deleteEdge returns getStats() to the value it had before the add,
\* and so does addNode followed by deleteNode
C11_AddThenDeleteRestoresStats ==
  /\ \A edge \in TEdges :
       LET added == TypedGraph_addEdge(typed, edge)
       IN  ~added.threw
             => TypedGraph_getStats(TypedGraph_deleteEdge(added.typed, edge).typed)
                  = TypedGraph_getStats(typed)
  /\ \A nd \in TNodes :
       LET added == TypedGraph_addNode(typed, nd)
       IN  ~added.threw
             => TypedGraph_getStats(TypedGraph_deleteNode(added.typed, nd).typed)
                  = TypedGraph_getStats(typed)

-----------------------------------------------------------------------------
(* SpecTypedOk: a TypedGraph under the calls of addNode, deleteNode, addEdge *)
(* and deleteEdge that succeed                                              *)

TypedAddNodeOk ==
  /\ \E nd \in TNodes :
       LET r == TypedGraph_addNode(typed, nd)
       IN  ~r.threw /\ typed' = r.typed
  /\ UNCHANGED <<nodeVars, graph, pfs, pr, io>>

TypedDeleteNodeOk ==
  /\ \E nd \in TNodes :
       LET r == TypedGraph_deleteNode(typed, nd)
       IN  ~r.threw /\ typed' = r.typed
  /\ UNCHANGED <<nodeVars, graph, pfs, pr, io>>

TypedAddEdgeOk ==
  /\ \E edge \in TEdges :
       LET r == TypedGraph_addEdge(typed, edge)
       IN  ~r.threw /\ typed' = r.typed
  /\ UNCHANGED <<nodeVars, graph, pfs, pr, io>>

TypedDeleteEdgeOk ==
  /\ \E edge \in TEdges :
       LET r == TypedGraph_deleteEdge(typed, edge)
       IN  ~r.threw /\ typed' = r.typed
  /\ UNCHANGED <<nodeVars, graph, pfs, pr, io>>

NextTypedOk == TypedAddNodeOk \/ TypedDeleteNodeOk \/ TypedAddEdgeOk \/ TypedDeleteEdgeOk

SpecTypedOk == InitTyped /\ [][NextTypedOk]_vars

\* every node and edge of the graph, each accepted by addNode or addEdge, can
\* be deleted without an error
AcceptedCanBeDeleted ==
  /\ \A nd \in TNodes :
       hasNodeID(typed.g, nd.id) => ~TypedGraph_deleteNode(typed, nd).threw
  /\ \A edge \in TEdges :
       BucketHas(typed.g.edges, edge.id) => ~TypedGraph_deleteEdge(typed, edge).threw

\* an untyped node or edge that the base graph accepts can be added
UntypedCanBeAdded ==
  /\ \A nd \in TNodes :
       (nd.label = nd.id /\ ~BaseGraph_addNodeByID(typed.g, nd.id).threw)
         => ~TypedGraph_addNode(typed, nd).threw
  /\ \A edge \in TEdges :
       (edge.label = edge.id /\ ~BaseGraph_addEdge(typed.g, edge).threw)
         => ~TypedGraph_addEdge(typed, edge).threw

\* C21: after any sequence of add and delete calls that succeeded, every node
\* that addNode accepted can be removed with deleteNode without an error and
\* a further addNode of an untyped node (label equal to id) succeeds; the
\* same for edges with addEdge and deleteEdge.
C21_DeleteAndUntypedAddSucceed == AcceptedCanBeDeleted /\ UntypedCanBeAdded

-----------------------------------------------------------------------------
(* PageRankRandomWalk: constructor, getPRArray and getPRDict *)

\* ranks and convergence are fixed-point numbers, PRScale units are 1; alpha
\* is a number of hundredths; a division truncates
PRScale == 1000000

AlphaScale == 100

DEFAULT_ALPHA == 15

DEFAULT_MAX_ITERATIONS == 1000

DEFAULT_CONVERGENCE == PRScale \div 10000

defaultInit(g) == PRScale \div nrNodes(g)

defaultAlphaDamp(g) == nrNodes(g)

Abs(x) == IF x < 0 THEN 0 - x ELSE x

\* constructor: the configuration with its defaults, then the arrays
PageRankRandomWalk(g, config) ==
  LET pre == setPRArrayDataStructs(g)
      n == nrNodes(g)
  IN  [graph |-> g,
       alpha |-> OrElse(config.alpha, DEFAULT_ALPHA),
       maxIterations |-> OrElse(config.iterations, DEFAULT_MAX_ITERATIONS),
       convergence |-> OrElse(config.convergence, DEFAULT_CONVERGENCE),
       init |-> defaultInit(g),
       alphaDamp |-> defaultAlphaDamp(g),
       PR_index |-> pre.PR_index,
       ds |-> [curr |-> [i \in 0..(n - 1) |-> defaultInit(g)],
               old |-> [i \in 0..(n - 1) |-> defaultInit(g)],
               outDeg |-> pre.outDeg,
               pull |-> pre.pull]]

\* the rank a node gets from the sources it pulls from
RECURSIVE PullRank(_, _, _)
PullRank(old, deg, sources) ==
  IF sources = <<>> THEN 0
  ELSE old[Head(sources)] \div deg[Head(sources)] + PullRank(old, deg, Tail(sources))

\* (1 - alpha) * pull_rank + alpha / alphaDamp
NewRank(pr_inst, pull_rank) ==
  ((AlphaScale - pr_inst.alpha) * pull_rank) \div AlphaScale
    + ((pr_inst.alpha * PRScale) \div AlphaScale) \div pr_inst.alphaDamp

\* getPRArray, one sweep: the nodes from index `at` on, in index order; a
\* source with outDeg 0 throws and leaves curr as it is by then
RECURSIVE getPRArray_sweep(_, _, _, _)
getPRArray_sweep(pr_inst, ds, at, delta_iter) ==
  IF at = Len(pr_inst.graph.nodes)
  THEN [ds |-> ds, delta_iter |-> delta_iter, threw |-> FALSE]
  ELSE IF \E k \in 1..Len(ds.pull[at]) : ds.outDeg[ds.pull[at][k]] = 0
  THEN [ds |-> ds, delta_iter |-> delta_iter, threw |-> TRUE]
  ELSE LET c == NewRank(pr_inst, PullRank(ds.old, ds.outDeg, ds.pull[at]))
       IN  getPRArray_sweep(pr_inst, [ds EXCEPT !.curr[at] = c], at + 1,
                            delta_iter + Abs(c - ds.old[at]))

\* a call of getPRArray or getPRDict in progress: the loop counter, the sweeps
\* done, how it ended and what it returned
NoRanks(g) == [key \in DOMAIN g.node |-> 0]

NewRun(g) == [i |-> 0, sweeps |-> 0, status |-> "running", result |-> NoRanks(g),
              last_delta |-> 0]

\* getPRArray, one pass of `for (i = 0; i < maxIterations; ++i)`
getPRArray_step(pr_inst, run) ==
  IF run.i < pr_inst.maxIterations
  THEN LET sw == getPRArray_sweep(pr_inst, pr_inst.ds, 0, 0)
           swept == [run EXCEPT !.sweeps = @ + 1, !.last_delta = sw.delta_iter]
       IN  IF sw.threw
           THEN [inst |-> [pr_inst EXCEPT !.ds = sw.ds],
                 run |-> [swept EXCEPT !.status = "threw"]]
           ELSE IF sw.delta_iter <= pr_inst.convergence
           THEN [inst |-> [pr_inst EXCEPT !.ds = sw.ds],
                 run |-> [swept EXCEPT
                            !.status = "converged",
                            !.result = getRankMapFromArray(pr_inst.graph,
                                         pr_inst.PR_index, sw.ds.curr)]]
           ELSE [inst |-> [pr_inst EXCEPT !.ds = [sw.ds EXCEPT !.old = sw.ds.curr]],
                 run |-> [swept EXCEPT !.i = @ + 1]]
  ELSE [inst |-> pr_inst,
        run |-> [run EXCEPT
                   !.status = "aborted",
                   !.result = getRankMapFromArray(pr_inst.graph, pr_inst.PR_index,
                                                  pr_inst.ds.curr)]]

\* getPRDict, before the loop: per node key the degree it pushes with and the
\* ids of the nodes it pulls from, and the ranks by key
getPRDict_init(pr_inst) ==
  LET g == pr_inst.graph
      incOf(key) ==
        LET incomingEdges == mergeObjects(<<g.node[key].in_edges, g.node[key].und_edges>>)
        IN  [k \in 1..Len(incomingEdges) |->
               IF incomingEdges[k].a = key THEN incomingEdges[k].b
               ELSE incomingEdges[k].a]
  IN  [deg |-> [key \in DOMAIN g.node |-> outDegree(g.node[key]) + degree(g.node[key])],
       inc |-> [key \in DOMAIN g.node |-> incOf(key)],
       curr |-> [key \in DOMAIN g.node |-> pr_inst.init],
       old |-> [key \in DOMAIN g.node |-> pr_inst.init]]

\* getPRDict sweep that pulls from the ranks of the running sweep
RECURSIVE getPRDict_sweep_readsCurr(_, _, _, _)
getPRDict_sweep_readsCurr(pr_inst, dict, at, delta_iter) ==
  LET keys == ObjectKeys(pr_inst.graph.nodes)
  IN  IF at > Len(keys)
      THEN [dict |-> dict, delta_iter |-> delta_iter]
      ELSE LET key == keys[at]
               c == NewRank(pr_inst, PullRank(dict.curr, dict.deg, dict.inc[key]))
           IN  getPRDict_sweep_readsCurr(pr_inst, [dict EXCEPT !.curr[key] = c], at + 1,
                                         delta_iter + Abs(c - dict.old[key]))

\* getPRDict, one sweep: the keys from position `at` on, in the order of
\* `for (key in nodes)`
RECURSIVE getPRDict_sweep(_, _, _, _)
getPRDict_sweep(pr_inst, dict, at, delta_iter) ==
  LET keys == ObjectKeys(pr_inst.graph.nodes)
  IN  IF at > Len(keys)
      THEN [dict |-> dict, delta_iter |-> delta_iter]
      ELSE LET key == keys[at]
               c == NewRank(pr_inst, PullRank(dict.old, dict.deg, dict.inc[key]))
           IN  getPRDict_sweep(pr_inst, [dict EXCEPT !.curr[key] = c], at + 1,
                               delta_iter + Abs(c - dict.old[key]))

\* getPRDict, one pass of `for (i = 0; i < maxIterations; ++i)`
getPRDict_step(pr_inst, dict, run) ==
  IF run.i < pr_inst.maxIterations
  THEN LET sw == getPRDict_sweep(pr_inst, dict, 1, 0)
           swept == [run EXCEPT !.sweeps = @ + 1, !.last_delta = sw.delta_iter]
       IN  IF sw.delta_iter <= pr_inst.convergence
           THEN [dict |-> sw.dict,
                 run |-> [swept EXCEPT !.status = "converged", !.result = sw.dict.curr]]
           ELSE [dict |-> [sw.dict EXCEPT !.old = sw.dict.curr],
                 run |-> [swept EXCEPT !.i = @ + 1]]
  ELSE [dict |-> dict,
        run |-> [run EXCEPT !.status = "aborted", !.result = dict.curr]]

-----------------------------------------------------------------------------
(* PageRank on a graph: getPRArray, getPRDict on a fresh instance, and
   getPRArray once more on the first instance *)

MaxPREdges == 3

MaxIterations == 2

PRNodes == <<"A", "B", "C">>

\* the candidate edges, in the order they can be added
PRCandidates ==
  << [a |-> "A", b |-> "B", directed |-> TRUE],
     [a |-> "B", b |-> "C", directed |-> FALSE],
     [a |-> "C", b |-> "C", directed |-> TRUE],
     [a |-> "A", b |-> "A", directed |-> FALSE],
     [a |-> "C", b |-> "A", directed |-> TRUE] >>

\* config.iterations and config.convergence: absent, 0, or a number
PRIterations == {Undefined} \cup (0..MaxIterations)

PRConvergences == {Undefined, 0, PRScale \div 10}

PRConfig(iterations, convergence) ==
  [alpha |-> Undefined, iterations |-> iterations, convergence |-> convergence]

InitPR ==
  /\ pr = [phase |-> "build", graph |-> AddNodes(EmptyGraph, PRNodes), last |-> 0,
           config |-> PRConfig(Undefined, Undefined),
           inst |-> PageRankRandomWalk(AddNodes(EmptyGraph, PRNodes),
                                       PRConfig(Undefined, Undefined)),
           dict |-> getPRDict_init(PageRankRandomWalk(AddNodes(EmptyGraph, PRNodes),
                                                      PRConfig(Undefined, Undefined))),
           array |-> NewRun(AddNodes(EmptyGraph, PRNodes)),
           dictRun |-> NewRun(AddNodes(EmptyGraph, PRNodes)),
           again |-> NewRun(AddNodes(EmptyGraph, PRNodes))]
  /\ edgeOf = <<>> /\ node = NewNode /\ lastOp = Call("new", 0) /\ threw = FALSE
  /\ graph = <<>> /\ pfs = <<>> /\ typed = <<>> /\ io = <<>>

PRAddEdge ==
  /\ pr.phase = "build"
  /\ Len(pr.graph.edges) < MaxPREdges
  /\ \E k \in (pr.last + 1)..Len(PRCandidates) :
       LET c == PRCandidates[k]
       IN  pr' = [pr EXCEPT !.graph = BaseGraph_addEdge(@, Edge(k, c.a, c.b, c.directed, NaN)).graph,
                            !.last = k]
  /\ UNCHANGED <<nodeVars, graph, pfs, typed, io>>

\* new PageRankRandomWalk(graph, config), and the call of getPRArray begins
PRConstruct ==
  /\ pr.phase = "build"
  /\ \E iterations \in PRIterations, convergence \in PRConvergences :
       LET config == PRConfig(iterations, convergence)
           fresh == PageRankRandomWalk(pr.graph, config)
       IN  pr' = [pr EXCEPT !.phase = "array", !.config = config, !.inst = fresh,
                            !.dict = getPRDict_init(fresh)]
  /\ UNCHANGED <<nodeVars, graph, pfs, typed, io>>

\* getPRArray: one pass of its loop; when it has returned, getPRDict begins on
\* a fresh instance
PRArrayStep ==
  /\ pr.phase = "array"
  /\ LET r == getPRArray_step(pr.inst, pr.array)
     IN  pr' = [pr EXCEPT !.inst = r.inst, !.array = r.run,
                          !.phase = IF r.run.status = "running" THEN "array" ELSE "dict"]
  /\ UNCHANGED <<nodeVars, graph, pfs, typed, io>>

\* getPRDict: one pass of its loop; when it has returned, getPRArray is called
\* again on the first instance
PRDictStep ==
  /\ pr.phase = "dict"
  /\ LET r == getPRDict_step(PageRankRandomWalk(pr.graph, pr.config), pr.dict, pr.dictRun)
     IN  pr' = [pr EXCEPT !.dict = r.dict, !.dictRun = r.run,
                          !.phase = IF r.run.status = "running" THEN "dict" ELSE "again"]
  /\ UNCHANGED <<nodeVars, graph, pfs, typed, io>>

PRAgainStep ==
  /\ pr.phase = "again"
  /\ LET r == getPRArray_step(pr.inst, pr.again)
     IN  pr' = [pr EXCEPT !.inst = r.inst, !.again = r.run,
                          !.phase = IF r.run.status = "running" THEN "again" ELSE "done"]
  /\ UNCHANGED <<nodeVars, graph, pfs, typed, io>>

NextPR == PRAddEdge \/ PRConstruct \/ PRArrayStep \/ PRDictStep \/ PRAgainStep

SpecPR == InitPR /\ [][NextPR]_vars

\* a call in progress takes its next step
SpecPRFair == SpecPR /\ WF_vars(PRArrayStep \/ PRDictStep \/ PRAgainStep)

-----------------------------------------------------------------------------
(* Claims about the PageRank iterations *)

\* the value a configuration asks for: the configured one, the default when
\* none is configured
Configured(x, default) == IF x = Undefined THEN default ELSE x

SweepsWithinCap(run) ==
  run.sweeps <= Configured(pr.config.iterations, DEFAULT_MAX_ITERATIONS)

StopsOnConvergence(run) ==
  (run.sweeps > 0
     /\ run.last_delta <= Configured(pr.config.convergence, DEFAULT_CONVERGENCE))
    => run.status = "converged"

\* C13: for every configured value of iterations, 0 included, getPRArray does
\* at most that many sweeps, stops as soon as the summed absolute change of a
\* sweep is <= convergence, and always returns a rank map
C13_IterationsIsHardCap ==
  /\ [](pr.phase # "build" => SweepsWithinCap(pr.array) /\ StopsOnConvergence(pr.array))
  /\ (pr.phase = "array") ~> (pr.array.status \in {"converged", "aborted"})

\* C20: on the same graph and configuration getPRArray and getPRDict, each on a
\* fresh instance, do the same number of sweeps and return the same rank for
\* every node id; a second getPRArray call on an instance whose first call
\* ended by convergence returns the same rank map as the first
C20_ArrayAndDictAgree ==
  /\ pr.phase \in {"again", "done"}
       => /\ pr.array.sweeps = pr.dictRun.sweeps
          /\ pr.array.status = pr.dictRun.status
          /\ \A id \in DOMAIN pr.graph.node : pr.array.result[id] = pr.dictRun.result[id]
  /\ (pr.phase = "done" /\ pr.array.status = "converged")
       => pr.again.result = pr.array.result

\* all three calls have returned, the first by convergence after several
\* sweeps, on a graph where the nodes differ in rank
C20_Witness ==
  /\ pr.phase = "done"
  /\ pr.array.status = "converged"
  /\ pr.array.sweeps > 2
  /\ Len(pr.graph.edges) >= 2
  /\ pr.array.result["A"] # pr.array.result["C"]

-----------------------------------------------------------------------------
(* ComputeGraph analysis: triads, triangles, transitivity *)

RECURSIVE GCD(_, _)
GCD(a, b) == IF b = 0 THEN a ELSE GCD(b, a % b)

\* the number a / b for integers a >= 0 and b >= 0, as a fraction in lowest
\* terms; 0 / 0 is NaN (0 over 0) and a / 0 is Infinity (1 over 0)
Quotient(a, b) ==
  IF b = 0
  THEN [num |-> IF a = 0 THEN 0 ELSE 1, den |-> 0]
  ELSE [num |-> a \div GCD(a, b), den |-> b \div GCD(a, b)]

\* ComputeGraph.triadCount
triadCount(g, directed) ==
  LET nodes == ObjectKeys(g.nodes)
      Sum[k \in 0..Len(nodes)] ==
        IF k = 0 THEN 0
        ELSE LET n == g.node[nodes[k]]
             IN  Sum[k - 1] + IF directed THEN inDegree(n) * outDegree(n)
                              ELSE (degree(n) * (degree(n) - 1)) \div 2
  IN  Sum[Len(nodes)]

\* tf.matMul on square matrices
matMul(x, y) ==
  LET idx == DOMAIN x
      Dot[i \in idx, j \in idx, k \in -1..(Cardinality(idx) - 1)] ==
        IF k = -1 THEN 0 ELSE Dot[i, j, k - 1] + x[i][k] * y[k][j]
  IN  [i \in idx |-> [j \in idx |-> Dot[i, j, Cardinality(idx) - 1]]]

\* triangleCount that divides the trace by 3 in the undirected case as well
triangleCount_dividesByThree(g, directed) ==
  LET a == adjMatrix(g)
      aux3 == matMul(a, matMul(a, a))
      Trace[i \in -1..(nrNodes(g) - 1)] ==
        IF i = -1 THEN 0 ELSE Trace[i - 1] + aux3[i][i]
  IN  Quotient(Trace[nrNodes(g) - 1], 3)

\* ComputeGraph.triangleCount, with a matrix multiplier at hand
triangleCount(g, directed) ==
  LET a == adjMatrix(g)
      aux2 == matMul(a, a)
      aux3 == matMul(a, aux2)
      Trace[i \in -1..(nrNodes(g) - 1)] ==
        IF i = -1 THEN 0 ELSE Trace[i - 1] + aux3[i][i]
  IN  Quotient(Trace[nrNodes(g) - 1], IF directed THEN 3 ELSE 6)

\* ComputeGraph.transitivity: 3 * triangles / triads
transitivity(g, directed) ==
  LET triangles == triangleCount(g, directed)
      triads == triadCount(g, directed)
  IN  Quotient(3 * triangles.num, triangles.den * triads)

-----------------------------------------------------------------------------
(* A graph on four nodes, built edge by edge from a list of candidates *)

MaxTriEdges == 7

TriNodes == <<"A", "B", "C", "D">>

\* the six undirected edges of K4, an undirected edge parallel to the first,
\* a directed edge and a self-loop
TriCandidates ==
  << [a |-> "A", b |-> "B", directed |-> FALSE],
     [a |-> "A", b |-> "C", directed |-> FALSE],
     [a |-> "A", b |-> "D", directed |-> FALSE],
     [a |-> "B", b |-> "C", directed |-> FALSE],
     [a |-> "B", b |-> "D", directed |-> FALSE],
     [a |-> "C", b |-> "D", directed |-> FALSE],
     [a |-> "B", b |-> "A", directed |-> FALSE],
     [a |-> "A", b |-> "B", directed |-> TRUE],
     [a |-> "C", b |-> "C", directed |-> FALSE] >>

InitTri ==
  /\ graph = AddNodes(EmptyGraph, TriNodes)
  /\ edgeOf = <<>> /\ node = NewNode /\ lastOp = Call("new", 0) /\ threw = FALSE
  /\ pfs = <<>> /\ typed = <<>> /\ pr = <<>> /\ io = <<>>

\* a later candidate is added, with or without a weight
TriAddEdge ==
  /\ Len(graph.edges) < MaxTriEdges
  /\ \E k \in 1..Len(TriCandidates), w \in {NaN, 0} :
       /\ \A i \in 1..Len(graph.edges) : graph.edges[i].id < k
       /\ graph' = BaseGraph_addEdge(graph,
                     Edge(k, TriCandidates[k].a, TriCandidates[k].b,
                          TriCandidates[k].directed, w)).graph
  /\ UNCHANGED <<nodeVars, pfs, typed, pr, io>>

NextTri == TriAddEdge

SpecTri == InitTri /\ [][NextTri]_vars

-----------------------------------------------------------------------------
(* Claims about the analysis *)

\* no self-loops, no directed edges
SimpleUndirected(g) ==
  \A i \in 1..Len(g.edges) : ~g.edges[i].directed /\ g.edges[i].a # g.edges[i].b

Adjacent(g, u, v) ==
  \E i \in 1..Len(g.edges) : {g.edges[i].a, g.edges[i].b} = {u, v}

\* the sets of three nodes that are pairwise adjacent
Cliques3(g) ==
  {S \in SUBSET DOMAIN g.node :
     Cardinality(S) = 3 /\ \A u \in S, v \in S : u # v => Adjacent(g, u, v)}

IsK4(g) ==
  /\ SimpleUndirected(g)
  /\ Len(g.edges) = 6
  /\ \A u \in DOMAIN g.node, v \in DOMAIN g.node : u # v => Adjacent(g, u, v)

-----------------------------------------------------------------------------
(* JSONInput: the reader of JSON graph documents *)

\* Number.NEGATIVE_INFINITY, Number.MAX_VALUE and Number.MIN_VALUE
NEGATIVE_INFINITY == -1000000

MAX_VALUE == 999999

MIN_VALUE == -4

\* parseFloat on the weight fields of the documents read here; a string that
\* does not start with a number gives NaN
parseFloat(s) ==
  CASE s = "2" -> 2
    [] s = "0" -> 0
    [] s = "Infinity" -> Infinity
    [] s = "-Infinity" -> NEGATIVE_INFINITY
    [] OTHER -> NaN

\* JSONInput.handleEdgeWeights with the results of "Infinity" and "MAX" exchanged
handleEdgeWeights_exchanged(edge_input) ==
  CASE edge_input.weight = "undefined" -> DEFAULT_WEIGHT
    [] edge_input.weight = "Infinity" -> MAX_VALUE
    [] edge_input.weight = "-Infinity" -> NEGATIVE_INFINITY
    [] edge_input.weight = "MAX" -> Infinity
    [] edge_input.weight = "MIN" -> MIN_VALUE
    [] OTHER -> parseFloat(edge_input.weight)

\* JSONInput.handleEdgeWeights
handleEdgeWeights(edge_input) ==
  CASE edge_input.weight = "undefined" -> DEFAULT_WEIGHT
    [] edge_input.weight = "Infinity" -> Infinity
    [] edge_input.weight = "-Infinity" -> NEGATIVE_INFINITY
    [] edge_input.weight = "MAX" -> MAX_VALUE
    [] edge_input.weight = "MIN" -> MIN_VALUE
    [] OTHER -> parseFloat(edge_input.weight)

\* new JSONInput(_explicit_direction, _direction, _weighted_mode)
JSONInput(explicit_direction, direction, weighted_mode) ==
  [explicit_direction |-> explicit_direction, direction |-> direction,
   weighted_mode |-> weighted_mode]

\* BaseGraph.hasEdgeID
BaseGraph_hasEdgeID(g, id) == BucketHas(g.edges, id)

\* the weight a new BaseEdge keeps: none unless it is weighted, and 1 for a
\* weighted edge without a number
BaseEdge_weight(options) ==
  IF options.weighted
  THEN IF isNaN(options.weight) THEN DEFAULT_WEIGHT ELSE options.weight
  ELSE Undefined

\* BaseGraph.addEdgeByID: a new edge with the options, added to the graph
BaseGraph_addEdgeByID(g, id, a, b, options) ==
  BaseGraph_addEdge(g, Edge(id, a, b, options.directed, BaseEdge_weight(options)))

\* the node of the id, created when the graph does not have it
readFromJSON_node(g, id) ==
  IF hasNodeID(g, id) THEN g ELSE BaseGraph_addNodeByID(g, id).graph

\* the id readFromJSON gives the edge from node_id to target_node_id
readFromJSON_edgeId(node_id, target_node_id, directed) ==
  node_id \o "_" \o target_node_id \o "_" \o (IF directed THEN "d" ELSE "u")

\* readFromJSON taking the directedness of every entry from its own field
readFromJSON_directed_ofEntry(config, edge_input) == edge_input.directed

\* the directedness readFromJSON gives an edge entry
readFromJSON_directed(config, edge_input) ==
  IF config.explicit_direction THEN edge_input.directed ELSE config.direction

\* JSONInput.readFromJSON, the loop over the edge entries of one node
RECURSIVE readFromJSON_edges(_, _, _, _)
readFromJSON_edges(config, g, node_id, edges) ==
  IF edges = <<>>
  THEN g
  ELSE LET edge_input == Head(edges)
           target_node_id == edge_input.to
           directed == readFromJSON_directed(config, edge_input)
           weight_float == handleEdgeWeights(edge_input)
           weight_info == IF weight_float # NaN THEN weight_float ELSE DEFAULT_WEIGHT
           edge_weight == IF config.weighted_mode THEN weight_info ELSE Undefined
           g1 == readFromJSON_node(g, target_node_id)
           edge_id == readFromJSON_edgeId(node_id, target_node_id, directed)
           edge_id_u2 == readFromJSON_edgeId(target_node_id, node_id, directed)
           g2 == IF BaseGraph_hasEdgeID(g1, edge_id) \/ (~directed /\ BaseGraph_hasEdgeID(g1, edge_id_u2))
                 THEN g1
                 ELSE BaseGraph_addEdgeByID(g1, edge_id, node_id, target_node_id,
                        [directed |-> directed, weighted |-> config.weighted_mode,
                         weight |-> edge_weight]).graph
       IN  readFromJSON_edges(config, g2, node_id, Tail(edges))

\* JSONInput.readFromJSON, the loop over the node entries of json.data
RECURSIVE readFromJSON_data(_, _, _)
readFromJSON_data(config, g, data) ==
  IF data = <<>>
  THEN g
  ELSE LET node_id == Head(data).id
           g1 == readFromJSON_node(g, node_id)
       IN  readFromJSON_data(config,
             readFromJSON_edges(config, g1, node_id, Head(data).edges), Tail(data))

\* JSONInput.readFromJSON
readFromJSON(config, json) == readFromJSON_data(config, EmptyGraph, json.data)

-----------------------------------------------------------------------------
(* SpecJSON: a reader of some configuration, and a document that grows by   *)
(* one node entry or one edge entry at a time and is read after each.       *)
(* json.data is the sequence of the node entries in key order.              *)

\* the most edge entries of a document
MaxJSONEdges == 2

\* the keys of json.data
JSONNodeIds == {"a", "a_a"}

\* the weight fields of the edge entries
JSONWeights == {"undefined", "Infinity", "2"}

EdgeInput(to, directed, weight) == [to |-> to, directed |-> directed, weight |-> weight]

NodeInput(id, edges) == [id |-> id, edges |-> edges]

\* the number of edge entries of a document
RECURSIVE nrEdgeInputs(_)
nrEdgeInputs(data) ==
  IF data = <<>> THEN 0 ELSE Len(Head(data).edges) + nrEdgeInputs(Tail(data))

InitJSON ==
  /\ \E ed \in BOOLEAN, d \in BOOLEAN, w \in BOOLEAN :
       io = [config |-> JSONInput(ed, d, w), json |-> [data |-> <<>>],
             graph |-> EmptyGraph]
  /\ edgeOf = <<>> /\ node = NewNode /\ lastOp = Call("new", 0) /\ threw = FALSE
  /\ graph = <<>> /\ pfs = <<>> /\ typed = <<>> /\ pr = <<>>

\* the document gets one more node entry, and is read
JSONNodeEntry ==
  /\ \E id \in JSONNodeIds :
       /\ \A i \in 1..Len(io.json.data) : io.json.data[i].id # id
       /\ LET json == [data |-> Append(io.json.data, NodeInput(id, <<>>))]
          IN  io' = [io EXCEPT !.json = json, !.graph = readFromJSON(io.config, json)]
  /\ UNCHANGED <<nodeVars, graph, pfs, typed, pr>>

\* the last node entry gets one more edge entry, and the document is read
JSONEdgeEntry ==
  /\ io.json.data # <<>>
  /\ nrEdgeInputs(io.json.data) < MaxJSONEdges
  /\ \E to \in JSONNodeIds, directed \in BOOLEAN, weight \in JSONWeights :
       LET n == Len(io.json.data)
           json == [data |-> [io.json.data EXCEPT ![n].edges =
                                Append(@, EdgeInput(to, directed, weight))]]
       IN  io' = [io EXCEPT !.json = json, !.graph = readFromJSON(io.config, json)]
  /\ UNCHANGED <<nodeVars, graph, pfs, typed, pr>>

NextJSON == JSONNodeEntry \/ JSONEdgeEntry

SpecJSON == InitJSON /\ [][NextJSON]_vars

-----------------------------------------------------------------------------
(* Claims about JSONInput *)

\* the edge entries of the document as read: source, target and directedness
EntriesRead ==
  {[a |-> io.json.data[i].id, b |-> io.json.data[i].edges[j].to,
    directed |-> readFromJSON_directed(io.config, io.json.data[i].edges[j])] :
     <<i, j>> \in {<<i, j>> \in (1..Len(io.json.data)) \X (1..MaxJSONEdges + 1) :
                     j <= Len(io.json.data[i].edges)}}

GraphEdges == {io.graph.edges[i] : i \in 1..Len(io.graph.edges)}

\* the edge joins the pair of the entry: the ordered pair for a directed
\* entry, the unordered pair for an undirected one
Joins(e, entry) ==
  /\ e.directed = entry.directed
  /\ \/ e.a = entry.a /\ e.b = entry.b
     \/ ~entry.directed /\ e.a = entry.b /\ e.b = entry.a

\* every edge has the id made of its endpoints and its directedness
IdsFromEndpoints ==
  \A e \in GraphEdges : e.id = readFromJSON_edgeId(e.a, e.b, e.directed)

\* no two edges join the same ordered pair (directed) or unordered pair
OneEdgePerPair ==
  \A e, f \in GraphEdges :
    Joins(e, [a |-> f.a, b |-> f.b, directed |-> f.directed]) => e = f

\* the pair of every entry has its edge: the first entry of a pair was not
\* skipped (a later one of the same pair has the id of the first)
FirstOfPairKept == \A entry \in EntriesRead : \E e \in GraphEdges : Joins(e, entry)

\* C15: after readFromJSON every edge has the id "{src}_{tgt}_{d|u}", the
\* graph has at most one directed edge per ordered node pair and at most one
\* undirected edge per unordered node pair, and the first entry listed for a
\* pair is never skipped, so every pair listed has its edge.
C15_FirstEntryOfPairKept == IdsFromEndpoints /\ OneEdgePerPair /\ FirstOfPairKept

\* the part of C15 that the reader keeps
C15_IdsAndOnePerPair == IdsFromEndpoints /\ OneEdgePerPair

\* the last edge entry of the document
LastEntry(json) ==
  LET edges == json.data[Len(json.data)].edges IN edges[Len(edges)]

\* the last edge of the graph
LastEdge(g) == g.edges[Len(g.edges)]

\* the weight the claim gives an edge read from an entry
SentinelWeight(edge_input, e) ==
  /\ edge_input.weight = "Infinity" => e.weight = Infinity
  /\ edge_input.weight = "undefined" => e.weight = 1

\* the reading of the new last entry has created an edge
EdgeCreated == Len(io'.graph.edges) > Len(io.graph.edges)

\* C16 as stated: under every configuration of the reader, the edge created
\* from an entry with weight "Infinity" has the weight positive infinity, and
\* the edge created from an entry with weight "undefined" has the weight 1.
C16_SentinelWeightsAlways ==
  [][EdgeCreated => SentinelWeight(LastEntry(io'.json), LastEdge(io'.graph))]_vars

\* C16, amended: under a reader in weighted mode, the edge created from an
\* entry with weight "Infinity" has the weight positive infinity, and the edge
\* created from an entry with weight "undefined" has the weight 1; under a
\* reader with weighted mode off every edge created has no weight.
C16_SentinelWeightsInWeightedMode ==
  [][EdgeCreated =>
       IF io.config.weighted_mode
       THEN SentinelWeight(LastEntry(io'.json), LastEdge(io'.graph))
       ELSE LastEdge(io'.graph).weight = Undefined]_vars

\* a weighted reader has read "Infinity" and "undefined" into two edges
C16_Witness ==
  /\ io.config.weighted_mode
  /\ Len(io.graph.edges) = 2
  /\ nrEdgeInputs(io.json.data) = 2
  /\ \E i, j \in 1..2 : /\ io.graph.edges[i].weight = Infinity
                        /\ io.graph.edges[j].weight = 1
  /\ \E n \in 1..Len(io.json.data) :
       /\ Len(io.json.data[n].edges) = 2
       /\ io.json.data[n].edges[1].weight = "Infinity"
       /\ io.json.data[n].edges[2].weight = "undefined"

\* C18: a reader with explicit_direction = false gives every edge the
\* configured direction, whatever the directed field of its entry says; with
\* direction = true the graph read has nr_und_edges = 0 and, if it has an
\* edge, the mode DIRECTED.
C18_DirectionFromConfig ==
  ~io.config.explicit_direction =>
    /\ \A e \in GraphEdges : e.directed = io.config.direction
    /\ io.config.direction =>
         /\ BaseGraph_getStats(io.graph).nr_und_edges = 0
         /\ Len(io.graph.edges) >= 1 => BaseGraph_getStats(io.graph).mode = "DIRECTED"

\* a reader with explicit_direction = false and direction = true has read a
\* document whose entries say directed: false into a graph with two edges
C18_Witness ==
  /\ ~io.config.explicit_direction /\ io.config.direction
  /\ Len(io.graph.edges) = 2
  /\ nrEdgeInputs(io.json.data) = 2
  /\ \A i \in 1..Len(io.json.data) : \A j \in 1..Len(io.json.data[i].edges) :
       ~io.json.data[i].edges[j].directed

-----------------------------------------------------------------------------
(* JSONInput.readFromJSONURL: the document is fetched, then read, and the   *)
(* graph is handed to the caller's callback                                 *)

\* the response texts: a JSON graph document, and a text that is not JSON
WellFormed == "json"

Malformed == "not json"

\* the document that the well-formed text denotes
URLDocument == [data |-> <<NodeInput("a", <<EdgeInput("a_a", TRUE, "Infinity")>>)>>]

\* no text is handed on
Nothing == "nothing"

\* HTTP status: OK, Not Found, and 0 for a request that got no response
\* (connection failure or timeout)
HTTP_OK == 200

HTTP_NOT_FOUND == 404

HTTP_NONE == 0

\* XMLHttpRequest.readyState: OPENED and DONE
OPENED == 1

DONE == 4

\* a call of readFromJSONURL: the state of its request, the response, the
\* calls of cb so far, and whether a handler of the request has thrown
Request(readyState, status, body) ==
  [readyState |-> readyState, status |-> status, body |-> body,
   callbacks |-> <<>>, threw |-> FALSE]

\* graph = self.readFromJSON(JSON.parse(text)); cb(graph, undefined):
\* JSON.parse throws a SyntaxError on a text that is not JSON
readFromJSONURL_parseAndCall(config, req, text) ==
  IF text = WellFormed
  THEN [req EXCEPT !.callbacks =
          Append(@, [graph |-> readFromJSON(config, URLDocument), err |-> Undefined])]
  ELSE [req EXCEPT !.threw = TRUE]

\* request.onreadystatechange in a browser
readFromJSONURL_onreadystatechange(config, req) ==
  IF req.readyState = DONE /\ req.status = HTTP_OK
  THEN readFromJSONURL_parseAndCall(config, req, req.body)
  ELSE req

\* remoteUtils.retrieveRemoteFile: what it may hand to its callback for a
\* response. The text of a 200 response is handed on; without a response
\* nothing is; the text of any other response may be handed on or not.
retrieveRemoteFile(status, body) ==
  CASE status = HTTP_OK -> {body}
    [] status = HTTP_NONE -> {Nothing}
    [] OTHER -> {body, Nothing}

\* the callback readFromJSONURL gives retrieveRemoteFile under node
readFromJSONURL_onRemoteFile(config, req, raw_graph) ==
  IF raw_graph = Nothing THEN req ELSE readFromJSONURL_parseAndCall(config, req, raw_graph)

-----------------------------------------------------------------------------
(* SpecURL: calls of readFromJSONURL in a browser or under node, and the    *)
(* events of their requests                                                 *)

\* the most calls of readFromJSONURL
MaxURLCalls == 2

\* the responses: status and text
URLResponses ==
  {[status |-> HTTP_OK, body |-> WellFormed], [status |-> HTTP_OK, body |-> Malformed],
   [status |-> HTTP_NOT_FOUND, body |-> Malformed], [status |-> HTTP_NONE, body |-> Malformed]}

InitURL ==
  /\ \E window \in BOOLEAN, w \in BOOLEAN :
       io = [window |-> window, config |-> JSONInput(TRUE, FALSE, w), requests |-> <<>>]
  /\ edgeOf = <<>> /\ node = NewNode /\ lastOp = Call("new", 0) /\ threw = FALSE
  /\ graph = <<>> /\ pfs = <<>> /\ typed = <<>> /\ pr = <<>>

\* readFromJSONURL(config, cb): the request is opened and sent
URLRead ==
  /\ Len(io.requests) < MaxURLCalls
  /\ io' = [io EXCEPT !.requests = Append(@, Request(OPENED, Undefined, Nothing))]
  /\ UNCHANGED <<nodeVars, graph, pfs, typed, pr>>

\* a browser request moves on to HEADERS_RECEIVED or LOADING; the handler runs
URLReadyStateChange ==
  /\ io.window
  /\ \E k \in 1..Len(io.requests) :
       /\ io.requests[k].readyState < DONE - 1
       /\ io' = [io EXCEPT !.requests[k] =
                   readFromJSONURL_onreadystatechange(io.config,
                     [@ EXCEPT !.readyState = @ + 1])]
  /\ UNCHANGED <<nodeVars, graph, pfs, typed, pr>>

\* a request ends, with a response or without; in a browser the handler runs
\* with readyState DONE, under node retrieveRemoteFile hands on what it has
URLResponse ==
  /\ \E k \in 1..Len(io.requests), r \in URLResponses :
       /\ io.requests[k].readyState < DONE
       /\ LET req == [io.requests[k] EXCEPT !.readyState = DONE,
                                            !.status = r.status, !.body = r.body]
          IN  IF io.window
              THEN io' = [io EXCEPT !.requests[k] =
                            readFromJSONURL_onreadystatechange(io.config, req)]
              ELSE \E raw_graph \in retrieveRemoteFile(r.status, r.body) :
                     io' = [io EXCEPT !.requests[k] =
                              readFromJSONURL_onRemoteFile(io.config, req, raw_graph)]
  /\ UNCHANGED <<nodeVars, graph, pfs, typed, pr>>

NextURL == URLRead \/ URLReadyStateChange \/ URLResponse

SpecURL == InitURL /\ [][NextURL]_vars

\* every request ends: the server answers, or the connection fails or times out
SpecURLFair == SpecURL /\ WF_vars(URLReadyStateChange \/ URLResponse)

-----------------------------------------------------------------------------
(* Claims about readFromJSONURL *)

Called(k) == k <= Len(io.requests)

Ended(k) == Called(k) /\ io.requests[k].readyState = DONE

\* the fetch and the parse of call k have succeeded
Succeeded(k) ==
  Ended(k) /\ io.requests[k].status = HTTP_OK /\ io.requests[k].body = WellFormed

\* cb has been called once, with the graph of the document and no error
CalledBackWithGraph(k) ==
  io.requests[k].callbacks =
    <<[graph |-> readFromJSON(io.config, URLDocument), err |-> Undefined]>>

\* cb has been called once, with an error as the second argument
CalledBackWithError(k) ==
  /\ Len(io.requests[k].callbacks) = 1
  /\ io.requests[k].callbacks[1].err # Undefined

\* C17: every call of readFromJSONURL eventually calls cb, and calls it once:
\* with the graph and an undefined error when the fetch and the parse have
\* succeeded, with the error as second argument when the fetch has failed
\* (a response other than 200, or none) or the text is not JSON.
C17_CallbackExactlyOnce ==
  \A k \in 1..MaxURLCalls :
    /\ Called(k) ~> (Called(k) /\ Len(io.requests[k].callbacks) = 1)
    /\ [](Called(k) => Len(io.requests[k].callbacks) <= 1)
    /\ [](Succeeded(k) => CalledBackWithGraph(k))
    /\ [](Ended(k) /\ ~Succeeded(k) => CalledBackWithError(k))

\* the part of C17 that readFromJSONURL keeps: cb is called at most once, after
\* a fetch and a parse that succeeded it has been called with the graph and
\* no error, and every call ends
C17_SuccessCallsBack ==
  \A k \in 1..MaxURLCalls :
    /\ Called(k) ~> Ended(k)
    /\ [](Called(k) => Len(io.requests[k].callbacks) <= 1)
    /\ [](Succeeded(k) => CalledBackWithGraph(k))

====
